---- MODULE Spec2Model ----
(***************************************************************************)
(* Model of the workspace link/unlink engine of commands-tree:             *)
(*   link    src/unnamed/part_000 (from line 24 on)                        *)
(*   unlink  src/unnamed/part_001                                          *)
(* Strings are TLA+ strings (sequences of characters), paths are POSIX     *)
(* path strings, and the string and path functions of the code are         *)
(* computed character by character.                                        *)
(***************************************************************************)
EXTENDS Integers, Sequences, FiniteSets, TLC

VARIABLES
    api,        \* which entry point the run exercises
    fs,         \* the file system: path -> entry, for the modelled paths
    last,       \* record of the last reconciler call (createSymbolicLink / removeSymbolicLink)
    manifests,  \* what findAllPackageJsonFiles + storage.readFile deliver, in order
    found,      \* record of the last findConsumingPackages call
    input,      \* the arguments of execute: command, runConfig, packageArgument
    inv,        \* the locals of the running executeInternal, with its position pc
    cwd,        \* process.cwd()
    calls,      \* the subprocess calls made so far (run / runSecure), in order
    result      \* how execute ended: returned a string or raised an error

vars == <<api, fs, last, manifests, found, input, inv, cwd, calls, result>>

----------------------------------------------------------------------------
(* JavaScript strings and arrays                                           *)

\* String.prototype.startsWith
StartsWith(s, p) == Len(s) >= Len(p) /\ SubSeq(s, 1, Len(p)) = p

\* String.prototype.includes
Includes(s, sub) ==
    \E i \in 1..(Len(s) - Len(sub) + 1) : SubSeq(s, i, i + Len(sub) - 1) = sub

RECURSIVE SplitAcc(_, _, _)
SplitAcc(s, sep, cur) ==
    IF Len(s) = 0 THEN <<cur>>
    ELSE IF SubSeq(s, 1, 1) = sep
         THEN <<cur>> \o SplitAcc(Tail(s), sep, "")
         ELSE SplitAcc(Tail(s), sep, cur \o SubSeq(s, 1, 1))

\* String.prototype.split with a one-character separator
Split(s, sep) == SplitAcc(s, sep, "")

RECURSIVE JoinWith(_, _)
\* Array.prototype.join
JoinWith(seq, sep) ==
    IF Len(seq) = 0 THEN ""
    ELSE IF Len(seq) = 1 THEN seq[1]
    ELSE seq[1] \o sep \o JoinWith(Tail(seq), sep)

----------------------------------------------------------------------------
(* node:path on normalised absolute POSIX paths                            *)

\* path.join(a, b) for a normalised directory a and a plain segment b
PathJoin(a, b) == a \o "/" \o b

\* the segments of an absolute path: "/ws/a" -> <<"ws", "a">>
Segments(p) == Tail(Split(p, "/"))

\* path.dirname
PathDirname(p) ==
    LET segs == Segments(p)
    IN  IF Len(segs) <= 1 THEN "/"
        ELSE "/" \o JoinWith(SubSeq(segs, 1, Len(segs) - 1), "/")

RECURSIVE CommonPrefixLen(_, _)
CommonPrefixLen(a, b) ==
    IF Len(a) = 0 \/ Len(b) = 0 \/ a[1] # b[1] THEN 0
    ELSE 1 + CommonPrefixLen(Tail(a), Tail(b))

PathRelativeAbsolute(from, to) == to

\* path.relative(from, to): up from `from` to the common ancestor, then down
PathRelative(from, to) ==
    LET f == Segments(from)
        t == Segments(to)
        k == CommonPrefixLen(f, t)
        ups == [n \in 1..(Len(f) - k) |-> ".."]
    IN  JoinWith(ups \o SubSeq(t, k + 1, Len(t)), "/")

----------------------------------------------------------------------------
(* The file system (fs/promises), restricted to one consumer package's     *)
(* node_modules tree.  An entry is absent, a directory, a file or a        *)
(* symlink with the target string it stores.                               *)

Absent == [kind |-> "absent", target |-> ""]
DirEntry == [kind |-> "dir", target |-> ""]
FileEntry == [kind |-> "file", target |-> ""]
SymlinkTo(t) == [kind |-> "symlink", target |-> t]

\* const [scope, name] = packageName.startsWith('@') ? packageName.split('/') : [null, packageName]
ScopeOf(packageName) ==
    IF StartsWith(packageName, "@") THEN Split(packageName, "/")[1] ELSE ""
NameOf(packageName) ==
    IF StartsWith(packageName, "@") THEN Split(packageName, "/")[2] ELSE packageName

\* the dependency slot: node_modules/@scope/name or node_modules/name
SlotPath(packageName, targetDir) ==
    LET nodeModulesPath == PathJoin(targetDir, "node_modules")
    IN  IF ScopeOf(packageName) # ""
        THEN PathJoin(PathJoin(nodeModulesPath, ScopeOf(packageName)), NameOf(packageName))
        ELSE PathJoin(nodeModulesPath, NameOf(packageName))

\* the paths of the modelled file system, and the values the path functions
\* take on them, computed once
ConsumerDir == "/ws/consumer"
DepNames == {"@acme/a", "lodash"}
SourceDirs == {"/ws/a", "/ext/lib"}

SlotPaths == {SlotPath(d, ConsumerDir) : d \in DepNames}
FsPaths ==
    SlotPaths \cup {PathDirname(p) : p \in SlotPaths} \cup {PathJoin(ConsumerDir, "node_modules")}

TargetDirs == {ConsumerDir}
SlotOf == [t \in TargetDirs |-> [d \in DepNames |-> SlotPath(d, t)]]
DirnameOf == [p \in FsPaths |-> PathDirname(p)]
RelativeOf == [p \in FsPaths |-> [s \in SourceDirs |-> PathRelative(p, s)]]
Under == [p \in FsPaths |-> {q \in FsPaths : p = q \/ StartsWith(q, p \o "/")}]

\* the fs operations a call can be made to fail in (an error other than ENOENT)
FsOps == {"mkdir", "lstat", "readlink", "unlink", "rm", "symlink"}
NoFail == "none"

\* q is p or lies under p
IsAncestorOrSelf(p, q) == q \in Under[p]

\* fs.mkdir(dir, {recursive: true}) can succeed: no ancestor is a non-directory
MkdirOk(fsx, dir) ==
    \A p \in DOMAIN fsx : IsAncestorOrSelf(p, dir) => fsx[p].kind \in {"absent", "dir"}

\* fs.mkdir(dir, {recursive: true})
MkdirP(fsx, dir) ==
    [p \in DOMAIN fsx |->
        IF IsAncestorOrSelf(p, dir) /\ fsx[p].kind = "absent" THEN DirEntry ELSE fsx[p]]

\* fs.rm(p, {recursive: true, force: true})
RmRf(fsx, p) ==
    [q \in DOMAIN fsx |-> IF IsAncestorOrSelf(p, q) THEN Absent ELSE fsx[q]]

\* fs.unlink(p) on a file or a symlink
Unlink(fsx, p) == [fsx EXCEPT ![p] = Absent]

\* fs.symlink(target, p, 'dir') can succeed: p is free and its parent is a directory
SymlinkOk(fsx, p) ==
    /\ fsx[p].kind = "absent"
    /\ DirnameOf[p] \in DOMAIN fsx => fsx[DirnameOf[p]].kind = "dir"

\* fs.symlink(target, p, 'dir')
Symlink(fsx, target, p) == [fsx EXCEPT ![p] = SymlinkTo(target)]

Log(level, tag) == [level |-> level, tag |-> tag]

\* what a reconciler call yields: the file system it leaves, its return value,
\* the log events, the fs calls it made (in order), the branch it took, and
\* whether an error left the function instead of a return value
Outcome(fsx, ret, logs, ops, branch) ==
    [fs |-> fsx, ret |-> ret, logs |-> logs, ops |-> ops, branch |-> branch,
     thrown |-> FALSE]

\* the function without its outer catch: the error leaves it
CreateFailedRethrown(fsx, logs, ops, branch) ==
    [Outcome(fsx, FALSE, logs, ops, branch) EXCEPT !.thrown = TRUE]

\* the outer catch of createSymbolicLink
CreateFailed(fsx, logs, ops, branch) ==
    Outcome(fsx, FALSE, Append(logs, Log("warn", "SYMLINK_CREATE_FAILED")), ops, branch)

\* the tail shared by the branches that (re)create the link:
\* await fs.symlink(relativePath, targetPath, 'dir'); log; return true
CreateLinkStep(fsx, relativePath, targetPath, logs, ops, branch, okLog, failOp) ==
    IF failOp = "symlink" \/ ~SymlinkOk(fsx, targetPath)
    THEN CreateFailed(fsx, logs, Append(ops, "symlink:failed"), branch)
    ELSE Outcome(Symlink(fsx, relativePath, targetPath), TRUE,
                 Append(logs, okLog), Append(ops, "symlink"), branch)

\* if (existingLink === relativePath)
SameTargetAbsolute(existingLink, relativePath, sourcePath) == existingLink = sourcePath
SameTarget(existingLink, relativePath, sourcePath) == existingLink = relativePath

\* logger.warn(`SYMLINK_DIRECTORY_CONFLICT ...`) and logger.warn(`SYMLINK_FILE_CONFLICT ...`)
ConflictLogInfo(tag) == Log("info", tag)
ConflictLog(tag) == Log("warn", tag)

\* logger.info(`SYMLINK_FIXING ...`)
FixingLog == Log("info", "SYMLINK_FIXING")

CreateSymbolicLink(fsx, packageName, sourcePath, targetDir, isDryRun, failOp) ==
    LET targetPath == SlotOf[targetDir][packageName]
        mkdirDir == DirnameOf[targetPath]
        relativePath == RelativeOf[DirnameOf[targetPath]][sourcePath]
        fs1 == MkdirP(fsx, mkdirDir)
        ops1 == <<IF fs1 = fsx THEN "mkdir:noop" ELSE "mkdir:create">>
        ops2 == Append(ops1, "lstat")
        entry == fs1[targetPath]
    IN  IF isDryRun
        THEN Outcome(fsx, TRUE, <<Log("verbose", "DRY_RUN_WOULD_CREATE")>>, <<>>, "dryRun")
        ELSE IF failOp = "mkdir" \/ ~MkdirOk(fsx, mkdirDir)
        THEN CreateFailed(fsx, <<>>, <<"mkdir:failed">>, "mkdirFailed")
        ELSE IF failOp = "lstat"
        THEN CreateFailed(fs1, <<>>, Append(ops1, "lstat:failed"), "lstatFailed")
        ELSE CASE entry.kind = "absent" ->
                    CreateLinkStep(fs1, relativePath, targetPath, <<>>, ops2, "absent",
                                   Log("verbose", "CREATED"), failOp)
               [] entry.kind = "symlink" ->
                    IF failOp = "readlink"
                    THEN CreateFailed(fs1, <<>>, Append(ops2, "readlink:failed"), "symlink")
                    ELSE IF SameTarget(entry.target, relativePath, sourcePath)
                    THEN Outcome(fs1, TRUE, <<Log("verbose", "ALREADY_CORRECT")>>,
                                 Append(ops2, "readlink"), "correctTarget")
                    ELSE IF failOp = "unlink"
                    THEN CreateFailed(fs1, <<FixingLog>>,
                                      ops2 \o <<"readlink", "unlink:failed">>, "staleTarget")
                    ELSE CreateLinkStep(Unlink(fs1, targetPath), relativePath, targetPath,
                                        <<FixingLog>>,
                                        ops2 \o <<"readlink", "unlink">>, "staleTarget",
                                        Log("info", "SYMLINK_FIXED"), failOp)
               [] entry.kind = "dir" ->
                    IF failOp = "rm"
                    THEN CreateFailed(fs1, <<ConflictLog("SYMLINK_DIRECTORY_CONFLICT")>>,
                                      Append(ops2, "rm:failed"), "occupiedByDirectory")
                    ELSE CreateLinkStep(RmRf(fs1, targetPath), relativePath, targetPath,
                                        <<ConflictLog("SYMLINK_DIRECTORY_CONFLICT")>>,
                                        Append(ops2, "rm"), "occupiedByDirectory",
                                        Log("info", "SYMLINK_CREATED"), failOp)
               [] entry.kind = "file" ->
                    IF failOp = "unlink"
                    THEN CreateFailed(fs1, <<ConflictLog("SYMLINK_FILE_CONFLICT")>>,
                                      Append(ops2, "unlink:failed"), "occupiedByFile")
                    ELSE CreateLinkStep(Unlink(fs1, targetPath), relativePath, targetPath,
                                        <<ConflictLog("SYMLINK_FILE_CONFLICT")>>,
                                        Append(ops2, "unlink"), "occupiedByFile",
                                        Log("info", "SYMLINK_CREATED"), failOp)

\* the outer catch of removeSymbolicLink
RemoveFailed(fsx, ops, branch) ==
    Outcome(fsx, FALSE, <<Log("warn", "UNLINK_SYMLINK_REMOVE_FAILED")>>, ops, branch)

\* stats.isSymbolicLink() in removeSymbolicLink
RemovableAny(entry) == TRUE
RemovableEntry(entry) == entry.kind = "symlink"

RemoveSymbolicLink(fsx, packageName, targetDir, isDryRun, failOp) ==
    LET targetPath == SlotOf[targetDir][packageName]
        entry == fsx[targetPath]
    IN  IF isDryRun
        THEN Outcome(fsx, TRUE, <<Log("verbose", "DRY_RUN_WOULD_REMOVE")>>, <<>>, "dryRun")
        ELSE IF failOp = "lstat"
        THEN RemoveFailed(fsx, <<"lstat:failed">>, "lstatFailed")
        ELSE CASE entry.kind = "absent" ->
                    Outcome(fsx, TRUE, <<Log("verbose", "NO_SYMLINK_FOUND")>>, <<"lstat">>, "absent")
               [] RemovableEntry(entry) ->
                    IF failOp = "unlink"
                    THEN RemoveFailed(fsx, <<"lstat", "unlink:failed">>, "symlink")
                    ELSE Outcome(Unlink(fsx, targetPath), TRUE,
                                 <<Log("verbose", "REMOVED_SYMLINK")>>,
                                 <<"lstat", "unlink">>, "symlink")
               [] OTHER ->
                    Outcome(fsx, FALSE, <<Log("verbose", "NOT_A_SYMLINK")>>, <<"lstat">>, "notSymlink")

----------------------------------------------------------------------------
(* Package manifests, as findAllPackageJsonFiles, storage.readFile,        *)
(* safeJsonParse and validatePackageJson deliver them: `valid` is FALSE    *)
(* when reading, parsing or validating throws; name "" is a missing name;  *)
(* a dependency section is absent or maps names to version specifiers.     *)

dependencyTypes == <<"dependencies", "devDependencies", "peerDependencies", "optionalDependencies">>

NoSection == [present |-> FALSE, entries |-> <<>>]
Section(names, version) == [present |-> TRUE, entries |-> [d \in names |-> version]]

\* JavaScript truthiness of obj[key] for an object of strings: a missing key
\* (undefined) and the empty string are falsy
TruthyAt(section, key) ==
    section.present /\ key \in DOMAIN section.entries /\ section.entries[key] # ""

RECURSIVE IndexOfFrom(_, _, _)
IndexOfFrom(s, sub, i) ==
    IF i + Len(sub) - 1 > Len(s) THEN 0
    ELSE IF SubSeq(s, i, i + Len(sub) - 1) = sub THEN i
    ELSE IndexOfFrom(s, sub, i + 1)

\* String.prototype.replace(sub, rep) with a string pattern: the first occurrence only
ReplaceFirst(s, sub, rep) ==
    LET i == IndexOfFrom(s, sub, 1)
    IN  IF i = 0 THEN s
        ELSE SubSeq(s, 1, i - 1) \o rep \o SubSeq(s, i + Len(sub), Len(s))

\* const packageDir = packageJsonLocation.path.replace('/package.json', '')
PackageDir(file) == ReplaceFirst(file.path, "/package.json", "")

HasAnyDependency(file, targetPackageName) ==
    \E t \in 1..Len(dependencyTypes) : file.sections[dependencyTypes[t]].present

\* dependencyTypes.some(depType => packageJson[depType] && packageJson[depType][targetPackageName])
HasDependency(file, targetPackageName) ==
    \E t \in 1..Len(dependencyTypes) :
        TruthyAt(file.sections[dependencyTypes[t]], targetPackageName)

\* the body of the loop of findConsumingPackages for one manifest
IsConsumerWithSelf(file, targetPackageName) ==
    /\ file.valid
    /\ file.name # ""
    /\ HasDependency(file, targetPackageName)

IsConsumer(file, targetPackageName) ==
    /\ file.valid
    /\ file.name # ""
    /\ HasDependency(file, targetPackageName)
    /\ file.name # targetPackageName

FindNoConsumingPackages(files, targetPackageName) == <<>>

RECURSIVE FindConsumingPackages(_, _)
FindConsumingPackages(files, targetPackageName) ==
    IF Len(files) = 0 THEN <<>>
    ELSE (IF IsConsumer(files[1], targetPackageName)
          THEN <<[name |-> files[1].name, path |-> PackageDir(files[1])]>>
          ELSE <<>>)
         \o FindConsumingPackages(Tail(files), targetPackageName)

----------------------------------------------------------------------------
(* Bounded inputs                                                          *)

MaxManifests == 2

InitialTargets(p) ==
    {RelativeOf[DirnameOf[p]][s] : s \in SourceDirs} \cup {"/abs/elsewhere"}

InitialEntries(p) ==
    IF p \in SlotPaths
    THEN {Absent, DirEntry, FileEntry} \cup {SymlinkTo(t) : t \in InitialTargets(p)}
    ELSE {Absent, DirEntry}

\* an entry exists only inside an existing directory
WellFormed(f) ==
    \A p \in DOMAIN f :
        (f[p].kind # "absent" /\ DirnameOf[p] \in DOMAIN f) => f[DirnameOf[p]].kind = "dir"

AllInitialEntries == UNION {InitialEntries(p) : p \in FsPaths}

FsStates ==
    {f \in [FsPaths -> AllInitialEntries] :
        WellFormed(f) /\ \A p \in FsPaths : f[p] \in InitialEntries(p)}

EmptyFs == [p \in FsPaths |-> Absent]

TargetNames == {"@acme/a", "@acme/b"}
ManifestNames == {"@acme/a", "@acme/b", ""}
VersionSpecs == {"^1.0.0", ""}

SectionsWith(t, names, version) ==
    [s \in {dependencyTypes[n] : n \in 1..Len(dependencyTypes)} |->
        IF s = t THEN Section(names, version) ELSE NoSection]

\* the dependency declarations a manifest is drawn from: none at all, an
\* unrelated dependency, or "@acme/a" in one section with a version specifier
SectionChoices ==
    {SectionsWith("", {}, ""), SectionsWith("dependencies", {"lodash"}, "^4.17.0")}
    \cup {SectionsWith(dependencyTypes[n], {"@acme/a"}, v) :
            n \in 1..Len(dependencyTypes), v \in VersionSpecs}

ManifestAt(n, valid, name, sections) ==
    [path |-> "/ws/p" \o ToString(n) \o "/package.json",
     valid |-> valid, name |-> name, sections |-> sections]

ManifestChoices(n) ==
    {ManifestAt(n, TRUE, nm, sec) : nm \in ManifestNames, sec \in SectionChoices}
    \cup {ManifestAt(n, FALSE, "", SectionsWith("", {}, ""))}

RECURSIVE ManifestLists(_)
\* the lists of n manifests, the k-th at /ws/p<k>
ManifestLists(n) ==
    IF n = 0 THEN {<<>>}
    ELSE {Append(l, m) : l \in ManifestLists(n - 1), m \in ManifestChoices(n)}

NoCall ==
    [fn |-> "none", packageName |-> "", sourcePath |-> "", isDryRun |-> FALSE,
     failOp |-> NoFail, ret |-> FALSE, logs |-> <<>>, ops |-> <<>>, branch |-> "",
     before |-> EmptyFs, repeat |-> FALSE, prevRet |-> FALSE, thrown |-> FALSE]

NoFound == [target |-> "", result |-> <<>>, done |-> FALSE]

\* runConfig and the arguments of execute: dryRun is runConfig.dryRun,
\* commandDryRun is runConfig.link?.dryRun / runConfig.unlink?.dryRun,
\* directories is runConfig.tree?.directories (<<>> when not set), externals,
\* scopeRoots and cleanNodeModules are those of runConfig.link / runConfig.unlink
\* for the updates command: updatesScope is runConfig.updates?.scope,
\* treePackageArgument is runConfig.tree?.packageArgument, updatesScopes is
\* runConfig.updates?.scopes and scopedDependencyUpdates is
\* runConfig.publish?.scopedDependencyUpdates (defined is FALSE when not set)
NoInput ==
    [command |-> "", packageArgument |-> "", configArgument |-> "",
     dryRun |-> FALSE, commandDryRun |-> FALSE, cwd |-> "/ws", directories |-> <<>>,
     externals |-> <<>>, scopeRoots |-> <<>>, cleanNodeModules |-> FALSE,
     updatesScope |-> "", treePackageArgument |-> "",
     updatesScopes |-> [defined |-> FALSE, value |-> <<>>],
     scopedDependencyUpdates |-> [defined |-> FALSE, value |-> <<>>]]

NoManifest ==
    [path |-> "", valid |-> FALSE, name |-> "", sections |-> SectionsWith("", {}, "")]

\* no other invocation of execute is suspended in the process
NoSuspended == [present |-> FALSE]

NoInvocation ==
    [pc |-> "idle", packages |-> <<>>, pkgIndex |-> 0, consumingPackages |-> <<>>,
     consumerIndex |-> 0, done |-> <<>>, lockPaths |-> <<>>, lockIndex |-> 0,
     originalCwd |-> "", summary |-> "", currentPackageJson |-> NoManifest,
     dependenciesToLink |-> <<>>, externalDependencies |-> <<>>, depIndex |-> 0,
     globallyLinkedPackages |-> <<>>, resultStr |-> "", packageStatuses |-> <<>>,
     linkedBefore |-> <<>>, scopesToUpdate |-> <<>>, scopeIndex |-> 0, results |-> <<>>,
     anyUpdates |-> FALSE, reconciled |-> <<>>, callsBefore |-> <<>>,
     suspended |-> NoSuspended]

NoResult == [kind |-> "none", value |-> ""]

----------------------------------------------------------------------------
(* Direct calls of the two reconcilers on a persistent file system         *)

CallRecord(fn, packageName, sourcePath, isDryRun, failOp, out) ==
    [fn |-> fn, packageName |-> packageName, sourcePath |-> sourcePath,
     isDryRun |-> isDryRun, failOp |-> failOp, ret |-> out.ret, logs |-> out.logs,
     ops |-> out.ops, branch |-> out.branch, before |-> fs,
     repeat |-> /\ last.fn = fn
                /\ last.packageName = packageName
                /\ last.sourcePath = sourcePath
                /\ last.isDryRun = isDryRun,
     prevRet |-> last.ret, thrown |-> out.thrown]

InitReconcile ==
    /\ api = "reconcile"
    /\ fs \in FsStates
    /\ last = NoCall
    /\ manifests = <<>>
    /\ found = NoFound
    /\ input = NoInput
    /\ inv = NoInvocation
    /\ cwd = "/ws"
    /\ calls = <<>>
    /\ result = NoResult

CallCreateSymbolicLink ==
    /\ api = "reconcile"
    /\ \E packageName \in DepNames, sourcePath \in SourceDirs, isDryRun \in BOOLEAN,
          failOp \in FsOps \cup {NoFail} :
        LET out == CreateSymbolicLink(fs, packageName, sourcePath, ConsumerDir, isDryRun, failOp)
        IN  /\ fs' = out.fs
            /\ last' = CallRecord("createSymbolicLink", packageName, sourcePath, isDryRun, failOp, out)
    /\ UNCHANGED <<api, manifests, found, input, inv, cwd, calls, result>>

CallRemoveSymbolicLink ==
    /\ api = "reconcile"
    /\ \E packageName \in DepNames, isDryRun \in BOOLEAN, failOp \in FsOps \cup {NoFail} :
        LET out == RemoveSymbolicLink(fs, packageName, ConsumerDir, isDryRun, failOp)
        IN  /\ fs' = out.fs
            /\ last' = CallRecord("removeSymbolicLink", packageName, "", isDryRun, failOp, out)
    /\ UNCHANGED <<api, manifests, found, input, inv, cwd, calls, result>>

NextReconcile == CallCreateSymbolicLink \/ CallRemoveSymbolicLink

SpecReconcile == InitReconcile /\ [][NextReconcile]_vars

----------------------------------------------------------------------------
(* Direct calls of findConsumingPackages on a discovered workspace         *)

InitConsumers ==
    /\ api = "consumers"
    /\ fs = EmptyFs
    /\ last = NoCall
    /\ manifests \in UNION {ManifestLists(n) : n \in 0..MaxManifests}
    /\ found = NoFound
    /\ input = NoInput
    /\ inv = NoInvocation
    /\ cwd = "/ws"
    /\ calls = <<>>
    /\ result = NoResult

CallFindConsumingPackages ==
    /\ api = "consumers"
    /\ \E targetPackageName \in TargetNames :
        found' = [target |-> targetPackageName,
                  result |-> FindConsumingPackages(manifests, targetPackageName),
                  done |-> TRUE]
    /\ UNCHANGED <<api, fs, last, manifests, input, inv, cwd, calls, result>>

NextConsumers == CallFindConsumingPackages

SpecConsumers == InitConsumers /\ [][NextConsumers]_vars

----------------------------------------------------------------------------
(* execute of link and unlink with a scope or package argument             *)
(* (explicit mode).  A step runs the code from one await of a subprocess   *)
(* to the next; a subprocess call succeeds or throws.                      *)

ParsePackageArgumentLenient(packageArg) ==
    LET parts == Split(packageArg, "/")
    IN  [ok |-> TRUE, scope |-> parts[1],
         packageName |-> IF Len(parts) = 1 THEN "" ELSE packageArg]

\* parsePackageArgument: scope and exact name ("" when absent), or a thrown error
ParsePackageArgument(packageArg) ==
    IF StartsWith(packageArg, "@")
    THEN LET parts == Split(packageArg, "/")
         IN  IF Len(parts) = 1
             THEN [ok |-> TRUE, scope |-> parts[1], packageName |-> ""]
             ELSE [ok |-> TRUE, scope |-> parts[1], packageName |-> packageArg]
    ELSE [ok |-> FALSE, scope |-> "", packageName |-> ""]

IsMatchingAnyNamed(file, scope, packageName) == file.valid /\ file.name # ""

IsMatchingExactOnly(file, scope, packageName) ==
    /\ file.valid
    /\ file.name # ""
    /\ packageName # "" /\ file.name = packageName

\* the body of the loop of findMatchingPackages for one manifest
IsMatching(file, scope, packageName) ==
    /\ file.valid
    /\ file.name # ""
    /\ \/ StartsWith(file.name, scope \o "/")
       \/ (packageName # "" /\ file.name = packageName)

RECURSIVE FindMatchingPackages(_, _, _)
FindMatchingPackages(files, scope, packageName) ==
    IF Len(files) = 0 THEN <<>>
    ELSE (IF IsMatching(files[1], scope, packageName)
          THEN <<[name |-> files[1].name, path |-> PackageDir(files[1])]>>
          ELSE <<>>)
         \o FindMatchingPackages(Tail(files), scope, packageName)

\* findAllPackageJsonFiles(targetDirectory, storage): the manifests under the directory
FindAllPackageJsonFiles(files, targetDirectory) ==
    SelectSeq(files, LAMBDA f : StartsWith(f.path, targetDirectory \o "/"))

RECURSIVE DiscoverAll(_, _)
\* for (const targetDirectory of targetDirectories) allPackageJsonFiles = allPackageJsonFiles.concat(...)
DiscoverAll(files, targetDirectories) ==
    IF Len(targetDirectories) = 0 THEN <<>>
    ELSE FindAllPackageJsonFiles(files, targetDirectories[1])
         \o DiscoverAll(files, Tail(targetDirectories))

PackagesToProcessAll(matching, packageName) == matching

\* packageName ? matchingPackages.filter(pkg => pkg.name === packageName) : matchingPackages
PackagesToProcess(matching, packageName) ==
    IF packageName # ""
    THEN SelectSeq(matching, LAMBDA pkg : pkg.name = packageName)
    ELSE matching

NamesOf(pkgs) == [n \in 1..Len(pkgs) |-> pkgs[n].name]

InSeq(x, seq) == \E n \in 1..Len(seq) : seq[n] = x

\* Set.prototype.add on a Set kept in insertion order
AddUnique(seq, x) == IF InSeq(x, seq) THEN seq ELSE Append(seq, x)

RECURSIVE AddAllUnique(_, _)
AddAllUnique(seq, xs) ==
    IF Len(xs) = 0 THEN seq ELSE AddAllUnique(AddUnique(seq, xs[1]), Tail(xs))

PathsOf(pkgs) == [n \in 1..Len(pkgs) |-> pkgs[n].path]

RECURSIVE ConsumerPathsOfAll(_, _)
\* for (const pkg of packagesToLink) consumingPackages.forEach(c => allConsumingPackages.add(c.path))
ConsumerPathsOfAll(files, pkgs) ==
    IF Len(pkgs) = 0 THEN <<>>
    ELSE PathsOf(FindConsumingPackages(files, pkgs[1].name)) \o ConsumerPathsOfAll(files, Tail(pkgs))

LockPathsConsumersOnly(files, pkgs) == AddAllUnique(<<>>, ConsumerPathsOfAll(files, pkgs))

\* the directories whose lock file link regenerates: the consumers of every
\* package to link, then the packages themselves, each once
LockPaths(files, pkgs) ==
    AddAllUnique(AddAllUnique(<<>>, ConsumerPathsOfAll(files, pkgs)), PathsOf(pkgs))

IsDryRunConfigOnly == input.dryRun

\* runConfig.dryRun || runConfig.link?.dryRun || false
IsDryRun == input.dryRun \/ input.commandDryRun

\* runConfig.tree?.directories || [process.cwd()], taken at the entry of executeInternal
TargetDirectories ==
    IF Len(input.directories) > 0 THEN input.directories ELSE <<input.cwd>>

\* the manifests the discovery loops of this invocation go through
Discovered == DiscoverAll(manifests, TargetDirectories)

\* packageArgument || runConfig.link?.packageArgument
FinalPackageArgument ==
    IF input.packageArgument # "" THEN input.packageArgument ELSE input.configArgument

CommandError == "command failed"
LockCommand == "npm install --package-lock-only --no-audit --no-fund"

\* run(...) / runSecure(...) is entered: the child runs in the current directory
StartedIn(command, dir) == Append(calls, [command |-> command, cwd |-> dir, status |-> "pending"])
\* the child started before the chdir takes effect
StartedBeforeChdir(command) == StartedIn(command, cwd)

\* process.chdir(dir) and then run(...): the child runs in dir
Started(command) == StartedIn(command, cwd')

\* the pending subprocess ends
Ended(ok) == [calls EXCEPT ![Len(calls)].status = IF ok THEN "ok" ELSE "failed"]

\* executeInternal returns message
Return(message, locals) ==
    /\ result' = [kind |-> "returned", value |-> message]
    /\ inv' = [locals EXCEPT !.pc = "done"]

\* an error leaves executeInternal; execute logs it and throws it again
Raise(message, locals) ==
    /\ result' = [kind |-> "raised", value |-> message]
    /\ inv' = [locals EXCEPT !.pc = "done"]

\* try { process.chdir(dir); ... } finally { process.chdir(originalCwd); }: the
\* working directory once the block is left, having been current inside it
\* the same block without its finally
AfterNoFinally(originalCwd, current) == current
AfterFinally(originalCwd, current) == originalCwd

\* what the catch around a consumer's 'npm link <pkg>' does with a failure
OnLinkSourceErrorWarn == "warn"

\* what the catch around a source's Step A and Step B does with a failure of 'npm link'
OnLinkSourceError == "throw"

OnReinstallErrorWarn == "warn"

\* what the catch around 'npm install' of the clean unlink does with a failure
OnReinstallError == "throw"

OnLockRegenErrorThrow == "throw"

\* what the catch around a lock file regeneration does with a failure
OnLockRegenError == "warn"

OnLinkConsumerErrorWarn == "warn"
OnLinkConsumerError == "throw"

\* what the catch around a consumer's 'npm unlink <pkg>' does with a failure
OnUnlinkConsumerErrorThrow == "throw"
OnUnlinkConsumerError == "warn"

\* where the global registry keeps the link of a registered package
GlobalLinkOf(name) == "/global/lib/node_modules/" \o name

\* what a successful 'npm link <pkg>' run in dir leaves in dir/node_modules:
\* the slot of pkg is a symlink into the global registry
NpmLinkIn(fsx, dir, name) ==
    IF dir \in TargetDirs /\ name \in DepNames
    THEN LET slot == SlotOf[dir][name]
         IN  Symlink(RmRf(MkdirP(fsx, DirnameOf[slot]), slot), GlobalLinkOf(name), slot)
    ELSE fsx

\* what a successful 'npm unlink <pkg>' run in dir leaves: the slot of pkg is free
NpmUnlinkFrom(fsx, dir, name) ==
    IF dir \in TargetDirs /\ name \in DepNames
    THEN RmRf(fsx, SlotOf[dir][name])
    ELSE fsx

Explicit(command) ==
    /\ api = "execute"
    /\ input.command = command
    /\ FinalPackageArgument \notin {"", "status"}

CurrentPackage == inv.packages[inv.pkgIndex]
CurrentConsumer == inv.consumingPackages[inv.consumerIndex]

\* link, from the entry of execute to the loop over packagesToLink
LinkBegin ==
    /\ Explicit("link") /\ inv.pc = "start"
    /\ LET parsed == ParsePackageArgument(FinalPackageArgument)
           matching == FindMatchingPackages(Discovered, parsed.scope, parsed.packageName)
       IN  IF ~parsed.ok
           THEN Raise("Package argument must start with @ (scope): " \o FinalPackageArgument, inv)
           ELSE IF Len(matching) = 0
           THEN Return(IF parsed.packageName # ""
                       THEN "No package found matching: " \o parsed.packageName
                       ELSE "No packages found in scope: " \o parsed.scope, inv)
           ELSE /\ inv' = [inv EXCEPT !.pc = "link:package",
                                      !.packages = PackagesToProcess(matching, parsed.packageName),
                                      !.pkgIndex = 1]
                /\ UNCHANGED result
    /\ UNCHANGED <<api, fs, last, manifests, found, input, cwd, calls>>

\* Step A: chdir to the source package and run 'npm link' there
LinkSourceStart ==
    /\ Explicit("link") /\ inv.pc = "link:package"
    /\ inv.pkgIndex <= Len(inv.packages)
    /\ IF IsDryRun
       THEN \* chdir, log, chdir back (finally), findConsumingPackages
            /\ cwd' = cwd
            /\ calls' = calls
            /\ inv' = [inv EXCEPT !.pc = "link:consumer", !.originalCwd = cwd,
                          !.consumingPackages = FindConsumingPackages(Discovered, CurrentPackage.name),
                          !.consumerIndex = 1]
       ELSE /\ cwd' = CurrentPackage.path
            /\ calls' = Started("npm link")
            /\ inv' = [inv EXCEPT !.pc = "link:package:await", !.originalCwd = cwd]
    /\ UNCHANGED <<api, fs, last, manifests, found, input, result>>

\* 'npm link' ends: finally chdir back; on failure the error is wrapped and thrown
LinkSourceDone ==
    /\ Explicit("link") /\ inv.pc = "link:package:await"
    /\ \E ok \in BOOLEAN :
        /\ calls' = Ended(ok)
        /\ cwd' = AfterFinally(inv.originalCwd, cwd)
        /\ IF ok \/ OnLinkSourceError = "warn"
           THEN /\ inv' = [inv EXCEPT !.pc = "link:consumer",
                              !.consumingPackages = FindConsumingPackages(Discovered, CurrentPackage.name),
                              !.consumerIndex = 1]
                /\ UNCHANGED result
           ELSE Raise("Failed to link source package " \o CurrentPackage.name \o ": " \o CommandError, inv)
    /\ UNCHANGED <<api, fs, last, manifests, found, input>>

\* Step B: chdir to the next consumer and run 'npm link <pkg>' there
LinkConsumerStart ==
    /\ Explicit("link") /\ inv.pc = "link:consumer"
    /\ inv.consumerIndex <= Len(inv.consumingPackages)
    /\ IF IsDryRun
       THEN /\ cwd' = cwd
            /\ calls' = calls
            /\ inv' = [inv EXCEPT !.consumerIndex = @ + 1, !.originalCwd = cwd]
       ELSE /\ cwd' = CurrentConsumer.path
            /\ calls' = Started("npm link " \o CurrentPackage.name)
            /\ inv' = [inv EXCEPT !.pc = "link:consumer:await", !.originalCwd = cwd]
    /\ UNCHANGED <<api, fs, last, manifests, found, input, result>>

\* 'npm link <pkg>' ends: finally chdir back; a failure is thrown, wrapped twice
LinkConsumerDone ==
    /\ Explicit("link") /\ inv.pc = "link:consumer:await"
    /\ \E ok \in BOOLEAN :
        /\ calls' = Ended(ok)
        /\ cwd' = AfterFinally(inv.originalCwd, cwd)
        /\ fs' = IF ok THEN NpmLinkIn(fs, calls[Len(calls)].cwd, CurrentPackage.name) ELSE fs
        /\ IF ok \/ OnLinkConsumerError = "warn"
           THEN /\ inv' = [inv EXCEPT !.pc = "link:consumer", !.consumerIndex = @ + 1]
                /\ UNCHANGED result
           ELSE Raise("Failed to link source package " \o CurrentPackage.name
                        \o ": Failed to link " \o CurrentPackage.name \o " in consumer "
                        \o CurrentConsumer.name \o ": " \o CommandError, inv)
    /\ UNCHANGED <<api, last, manifests, found, input>>

\* every consumer is linked: linkedPackages.push(pkg.name), next package
LinkPackageEnd ==
    /\ Explicit("link") /\ inv.pc = "link:consumer"
    /\ inv.consumerIndex > Len(inv.consumingPackages)
    /\ inv' = [inv EXCEPT !.pc = "link:package", !.pkgIndex = @ + 1,
                          !.done = Append(@, CurrentPackage.name)]
    /\ UNCHANGED <<api, fs, last, manifests, found, input, cwd, calls, result>>

LinkSummary(linkedPackages) ==
    "Successfully linked " \o ToString(Len(linkedPackages)) \o " package(s): "
        \o JoinWith(linkedPackages, ", ")

\* after the loop: the summary; in a dry run it is returned, otherwise the
\* directories to regenerate lock files in are collected
LinkFinish ==
    /\ Explicit("link") /\ inv.pc = "link:package"
    /\ inv.pkgIndex > Len(inv.packages)
    /\ IF IsDryRun
       THEN Return(LinkSummary(inv.done), [inv EXCEPT !.summary = LinkSummary(inv.done)])
       ELSE /\ inv' = [inv EXCEPT !.pc = "link:lock", !.summary = LinkSummary(inv.done),
                          !.lockPaths = LockPaths(Discovered, inv.packages), !.lockIndex = 1]
            /\ UNCHANGED result
    /\ UNCHANGED <<api, fs, last, manifests, found, input, cwd, calls>>

\* chdir to the next directory and regenerate its lock file
LinkLockStart ==
    /\ Explicit("link") /\ inv.pc = "link:lock"
    /\ inv.lockIndex <= Len(inv.lockPaths)
    /\ cwd' = inv.lockPaths[inv.lockIndex]
    /\ calls' = Started(LockCommand)
    /\ inv' = [inv EXCEPT !.pc = "link:lock:await", !.originalCwd = cwd]
    /\ UNCHANGED <<api, fs, last, manifests, found, input, result>>

\* the regeneration ends: finally chdir back; a failure is logged as a warning
LinkLockDone ==
    /\ Explicit("link") /\ inv.pc = "link:lock:await"
    /\ \E ok \in BOOLEAN :
        /\ calls' = Ended(ok)
        /\ IF ok \/ OnLockRegenError = "warn"
           THEN /\ inv' = [inv EXCEPT !.pc = "link:lock", !.lockIndex = @ + 1]
                /\ UNCHANGED result
           ELSE Raise(CommandError, inv)
    /\ cwd' = AfterFinally(inv.originalCwd, cwd)
    /\ UNCHANGED <<api, fs, last, manifests, found, input>>

LinkEnd ==
    /\ Explicit("link") /\ inv.pc = "link:lock"
    /\ inv.lockIndex > Len(inv.lockPaths)
    /\ Return(inv.summary, inv)
    /\ UNCHANGED <<api, fs, last, manifests, found, input, cwd, calls>>

\* unlink, from the entry of execute to the loop over packagesToUnlink
UnlinkBegin ==
    /\ Explicit("unlink") /\ inv.pc = "start"
    /\ LET parsed == ParsePackageArgument(FinalPackageArgument)
           matching == FindMatchingPackages(Discovered, parsed.scope, parsed.packageName)
       IN  IF ~parsed.ok
           THEN Raise("Package argument must start with @ (scope): " \o FinalPackageArgument, inv)
           ELSE IF Len(matching) = 0
           THEN Return(IF parsed.packageName # ""
                       THEN "No package found matching: " \o parsed.packageName
                       ELSE "No packages found in scope: " \o parsed.scope, inv)
           ELSE /\ inv' = [inv EXCEPT !.pc = "unlink:package",
                                      !.packages = PackagesToProcess(matching, parsed.packageName),
                                      !.pkgIndex = 1]
                /\ UNCHANGED result
    /\ UNCHANGED <<api, fs, last, manifests, found, input, cwd, calls>>

\* Step A: find the consumers of the next package
UnlinkPackageStart ==
    /\ Explicit("unlink") /\ inv.pc = "unlink:package"
    /\ inv.pkgIndex <= Len(inv.packages)
    /\ inv' = [inv EXCEPT !.pc = "unlink:consumer",
                  !.consumingPackages = FindConsumingPackages(Discovered, CurrentPackage.name),
                  !.consumerIndex = 1]
    /\ UNCHANGED <<api, fs, last, manifests, found, input, cwd, calls, result>>

\* chdir to the next consumer and run 'npm unlink <pkg>' there
UnlinkConsumerStart ==
    /\ Explicit("unlink") /\ inv.pc = "unlink:consumer"
    /\ inv.consumerIndex <= Len(inv.consumingPackages)
    /\ IF IsDryRun
       THEN /\ cwd' = cwd
            /\ calls' = calls
            /\ inv' = [inv EXCEPT !.consumerIndex = @ + 1, !.originalCwd = cwd]
       ELSE /\ cwd' = CurrentConsumer.path
            /\ calls' = Started("npm unlink " \o CurrentPackage.name)
            /\ inv' = [inv EXCEPT !.pc = "unlink:consumer:await", !.originalCwd = cwd]
    /\ UNCHANGED <<api, fs, last, manifests, found, input, result>>

\* 'npm unlink <pkg>' ends: finally chdir back; a failure is logged as a warning
UnlinkConsumerDone ==
    /\ Explicit("unlink") /\ inv.pc = "unlink:consumer:await"
    /\ \E ok \in BOOLEAN :
        /\ calls' = Ended(ok)
        /\ fs' = IF ok THEN NpmUnlinkFrom(fs, calls[Len(calls)].cwd, CurrentPackage.name) ELSE fs
        /\ IF ok \/ OnUnlinkConsumerError = "warn"
           THEN /\ inv' = [inv EXCEPT !.pc = "unlink:consumer", !.consumerIndex = @ + 1]
                /\ UNCHANGED result
           ELSE Raise(CommandError, inv)
    /\ cwd' = AfterFinally(inv.originalCwd, cwd)
    /\ UNCHANGED <<api, last, manifests, found, input>>

\* Step B: chdir to the source package and run 'npm unlink' there
UnlinkSourceStart ==
    /\ Explicit("unlink") /\ inv.pc = "unlink:consumer"
    /\ inv.consumerIndex > Len(inv.consumingPackages)
    /\ IF IsDryRun
       THEN /\ cwd' = cwd
            /\ calls' = calls
            /\ inv' = [inv EXCEPT !.pc = "unlink:package", !.pkgIndex = @ + 1,
                          !.originalCwd = cwd, !.done = Append(@, CurrentPackage.name)]
       ELSE /\ cwd' = CurrentPackage.path
            /\ calls' = Started("npm unlink")
            /\ inv' = [inv EXCEPT !.pc = "unlink:source:await", !.originalCwd = cwd]
    /\ UNCHANGED <<api, fs, last, manifests, found, input, result>>

\* 'npm unlink' ends: finally chdir back; unlinkedPackages.push(pkg.name) either way
UnlinkSourceDone ==
    /\ Explicit("unlink") /\ inv.pc = "unlink:source:await"
    /\ \E ok \in BOOLEAN : calls' = Ended(ok)
    /\ cwd' = AfterFinally(inv.originalCwd, cwd)
    /\ inv' = [inv EXCEPT !.pc = "unlink:package", !.pkgIndex = @ + 1,
                  !.done = Append(@, CurrentPackage.name)]
    /\ UNCHANGED <<api, fs, last, manifests, found, input, result>>

UnlinkSummary(unlinkedPackages) ==
    "Successfully unlinked " \o ToString(Len(unlinkedPackages)) \o " package(s): "
        \o JoinWith(unlinkedPackages, ", ")

UnlinkEnd ==
    /\ Explicit("unlink") /\ inv.pc = "unlink:package"
    /\ inv.pkgIndex > Len(inv.packages)
    /\ Return(UnlinkSummary(inv.done), [inv EXCEPT !.summary = UnlinkSummary(inv.done)])
    /\ UNCHANGED <<api, fs, last, manifests, found, input, cwd, calls>>

\* execute of unlink is called with the same argument and configuration once
\* execute of link has returned with every subprocess having succeeded; the
\* subprocess calls of the link are kept in callsBefore
UnlinkAfterLink ==
    /\ Explicit("link") /\ inv.pc = "done"
    /\ ~IsDryRun /\ result.kind = "returned"
    /\ Len(calls) > 0
    /\ \A n \in 1..Len(calls) : calls[n].status = "ok"
    /\ input' = [input EXCEPT !.command = "unlink"]
    /\ inv' = [NoInvocation EXCEPT !.pc = "start", !.callsBefore = calls]
    /\ calls' = <<>>
    /\ result' = NoResult
    /\ UNCHANGED <<api, fs, last, manifests, found, cwd>>

NextExplicit ==
    \/ LinkBegin \/ LinkSourceStart \/ LinkSourceDone \/ LinkConsumerStart
    \/ LinkConsumerDone \/ LinkPackageEnd \/ LinkFinish \/ LinkLockStart
    \/ LinkLockDone \/ LinkEnd
    \/ UnlinkBegin \/ UnlinkPackageStart \/ UnlinkConsumerStart \/ UnlinkConsumerDone
    \/ UnlinkSourceStart \/ UnlinkSourceDone \/ UnlinkEnd
    \/ UnlinkAfterLink

\* the workspaces: three packages of one scope under /ws, in discovery order,
\* with every choice of dependencies among them
WorkspacePackage(dir, name, deps) ==
    [path |-> "/ws/" \o dir \o "/package.json", valid |-> TRUE, name |-> name,
     sections |-> SectionsWith("dependencies", deps, "^1.0.0")]

Workspaces ==
    {<<WorkspacePackage("a", "@acme/a", da), WorkspacePackage("b", "@acme/b", db),
       WorkspacePackage("consumer", "@acme/consumer", dc)>> :
        da \in SUBSET {"@acme/b"}, db \in SUBSET {"@acme/a"},
        dc \in SUBSET {"@acme/a", "@acme/b"}}

\* packageArgument (parameter) and runConfig.<command>.packageArgument
ExplicitArguments ==
    {<<a, "">> : a \in {"@acme", "@acme/a", "@acme/b", "@other", "@acme/zzz", "@acme/a/x",
                        "@other/x", "lodash"}}
    \cup {<<"", "@acme/b">>, <<"@acme/a", "@acme">>}

\* process.cwd() at the call and runConfig.tree?.directories
ExplicitPlaces == {<<"/ws", <<>> >>, <<"/ws/a", <<"/ws">> >>, <<"/ws/a", <<>> >>}

ExplicitInputs ==
    {[NoInput EXCEPT !.command = c, !.packageArgument = a[1], !.configArgument = a[2],
                     !.dryRun = d, !.commandDryRun = cd, !.cwd = w[1], !.directories = w[2]] :
        c \in {"link", "unlink"}, a \in ExplicitArguments,
        d \in BOOLEAN, cd \in BOOLEAN, w \in ExplicitPlaces}

\* node_modules of the consumer package before an explicit run: empty, or
\* holding a link to @acme/a left by an earlier run
ExplicitFsStates ==
    {EmptyFs, NpmLinkIn(EmptyFs, ConsumerDir, "@acme/a")}

InitExplicit ==
    /\ api = "execute"
    /\ fs \in ExplicitFsStates
    /\ last = NoCall
    /\ manifests \in Workspaces
    /\ found = NoFound
    /\ input \in ExplicitInputs
    /\ inv = [NoInvocation EXCEPT !.pc = "start"]
    /\ cwd = input.cwd
    /\ calls = <<>>
    /\ result = NoResult

SpecExplicit == InitExplicit /\ [][NextExplicit]_vars

----------------------------------------------------------------------------
(* Two invocations of execute with an argument in one process. The process *)
(* is single-threaded: one invocation runs, from one await to the next,    *)
(* while the other is suspended at an await. inv, input, result and calls  *)
(* are those of the running invocation; inv.suspended keeps those of the   *)
(* other one. The working directory and the file system are the process's. *)

Suspended(otherInput, otherInv, otherResult, otherCalls) ==
    [present |-> TRUE, input |-> otherInput, inv |-> otherInv,
     result |-> otherResult, calls |-> otherCalls]

\* the running invocation is at an await: before or just after the discovery
\* of the matching packages, of the consumers of a source or of the lock
\* file directories (awaited file reads), inside an awaited run(...) or
\* runSecure(...), or it has ended
AtAwait ==
    \/ inv.pc \in {"start", "done", "link:package:await", "link:consumer:await",
                   "link:lock:await", "unlink:consumer:await", "unlink:source:await"}
    \/ inv.pc \in {"link:consumer", "unlink:consumer"} /\ inv.consumerIndex = 1
    \/ inv.pc = "link:lock" /\ inv.lockIndex = 1

\* the event loop resumes the other invocation
Yield ==
    /\ api = "execute"
    /\ inv.suspended.present
    /\ AtAwait
    /\ inv.suspended.inv.pc # "done"
    /\ inv' = [inv.suspended.inv EXCEPT !.suspended =
                    Suspended(input, [inv EXCEPT !.suspended = NoSuspended], result, calls)]
    /\ input' = inv.suspended.input
    /\ result' = inv.suspended.result
    /\ calls' = inv.suspended.calls
    /\ UNCHANGED <<api, fs, last, manifests, found, cwd>>

NextConcurrent ==
    \/ LinkBegin \/ LinkSourceStart \/ LinkSourceDone \/ LinkConsumerStart
    \/ LinkConsumerDone \/ LinkPackageEnd \/ LinkFinish \/ LinkLockStart
    \/ LinkLockDone \/ LinkEnd
    \/ UnlinkBegin \/ UnlinkPackageStart \/ UnlinkConsumerStart \/ UnlinkConsumerDone
    \/ UnlinkSourceStart \/ UnlinkSourceDone \/ UnlinkEnd
    \/ Yield

\* command and argument of the two calls of execute, made one after the
\* other in the directory /ws before either reaches its first await
ConcurrentRequests ==
    {<<"link", "@acme/a">>, <<"link", "@acme/b">>, <<"unlink", "@acme/a">>}

\* the workspaces the two invocations run over: @acme/consumer depends on
\* @acme/a and @acme/b, and @acme/b may depend on @acme/a
ConcurrentWorkspaces ==
    {<<WorkspacePackage("a", "@acme/a", {}), WorkspacePackage("b", "@acme/b", db),
       WorkspacePackage("consumer", "@acme/consumer", {"@acme/a", "@acme/b"})>> :
        db \in SUBSET {"@acme/a"}}

RequestInput(request) ==
    [NoInput EXCEPT !.command = request[1], !.packageArgument = request[2], !.cwd = "/ws"]

InitConcurrent ==
    /\ api = "execute"
    /\ fs = EmptyFs
    /\ last = NoCall
    /\ manifests \in ConcurrentWorkspaces
    /\ found = NoFound
    /\ \E first \in ConcurrentRequests, second \in ConcurrentRequests :
        /\ input = RequestInput(first)
        /\ inv = [NoInvocation EXCEPT !.pc = "start", !.suspended =
                    Suspended(RequestInput(second), [NoInvocation EXCEPT !.pc = "start"],
                              NoResult, <<>>)]
    /\ cwd = "/ws"
    /\ calls = <<>>
    /\ result = NoResult

SpecConcurrent == InitConcurrent /\ [][NextConcurrent]_vars

----------------------------------------------------------------------------
(* execute of link and unlink without an argument (smart mode), run in the *)
(* directory of the consumer package                                       *)

Smart(command) ==
    /\ api = "execute"
    /\ input.command = command
    /\ FinalPackageArgument = ""

RECURSIVE ReadManifest(_, _)
\* storage.readFile + safeJsonParse + validatePackageJson of the manifest at a
\* path; a missing file reads as an invalid one (the read throws)
ReadManifest(files, path) ==
    IF Len(files) = 0 THEN NoManifest
    ELSE IF files[1].path = path THEN files[1]
    ELSE ReadManifest(Tail(files), path)

ExistsAlways(files, path) == TRUE

\* storage.exists
Exists(files, path) == \E n \in 1..Len(files) : files[n].path = path

\* the order in which a manifest lists its dependency keys
KeyOrder == <<"@acme/a", "@acme/b", "lodash">>
KeysOf(section) ==
    IF section.present THEN SelectSeq(KeyOrder, LAMBDA k : k \in DOMAIN section.entries)
    ELSE <<>>

\* Object.keys({...packageJson.dependencies, ...packageJson.devDependencies})
AllDependencyKeys(manifest) ==
    AddAllUnique(KeysOf(manifest.sections["dependencies"]),
                 KeysOf(manifest.sections["devDependencies"]))

MatchesAnyDependency(dependencyName, patterns) == TRUE

\* matchesExternalLinkPattern / matchesExternalUnlinkPattern
MatchesExternalPattern(dependencyName, patterns) ==
    \E n \in 1..Len(patterns) :
        dependencyName = patterns[n] \/ StartsWith(dependencyName, patterns[n])

CurrentScopeOrName(name) == Split(name, "/")[1]

\* currentPackageJson.name.startsWith('@') ? currentPackageJson.name.split('/')[0] : null
CurrentScope(name) == IF StartsWith(name, "@") THEN Split(name, "/")[1] ELSE ""

SameScopeDependencies(manifest) ==
    SelectSeq(AllDependencyKeys(manifest),
              LAMBDA d : StartsWith(d, CurrentScope(manifest.name) \o "/"))

ExternalDependencies(manifest, patterns) ==
    SelectSeq(AllDependencyKeys(manifest), LAMBDA d : MatchesExternalPattern(d, patterns))

\* [...sameScopeDependencies, ...externalDependencies]
AllDependenciesToLink(manifest, patterns) ==
    SameScopeDependencies(manifest) \o ExternalDependencies(manifest, patterns)

RECURSIVE ResolveSegments(_, _)
ResolveSegments(base, rel) ==
    IF Len(rel) = 0 THEN base
    ELSE IF rel[1] = ".." THEN ResolveSegments(SubSeq(base, 1, Len(base) - 1), Tail(rel))
    ELSE IF rel[1] \in {"", "."} THEN ResolveSegments(base, Tail(rel))
    ELSE ResolveSegments(Append(base, rel[1]), Tail(rel))

\* path.resolve(base, rel) for an absolute base and a relative rel
PathResolve(base, rel) == "/" \o JoinWith(ResolveSegments(Segments(base), Split(rel, "/")), "/")

\* the directory in which scopeRoots places a dependency, "" when its scope has no root
ScopeRootPackageDir(depName, scopeRoots, currentDir) ==
    LET depScope == ScopeOf(depName)
    IN  IF depScope # "" /\ depScope \in DOMAIN scopeRoots
        THEN PathJoin(PathResolve(currentDir, scopeRoots[depScope]), NameOf(depName))
        ELSE ""

IsBlank(c) == c \in {" ", "\n", "\t", "\r"}

RECURSIVE TrimStart(_)
TrimStart(s) ==
    IF Len(s) > 0 /\ IsBlank(SubSeq(s, 1, 1)) THEN TrimStart(Tail(s)) ELSE s

RECURSIVE TrimEnd(_)
TrimEnd(s) ==
    IF Len(s) > 0 /\ IsBlank(SubSeq(s, Len(s), Len(s)))
    THEN TrimEnd(SubSeq(s, 1, Len(s) - 1)) ELSE s

\* String.prototype.trim
Trim(s) == TrimEnd(TrimStart(s))

\* resultStr.trim().split('\n').filter(line => line.trim() !== '')
DirectoryPaths(stdout) == SelectSeq(Split(Trim(stdout), "\n"), LAMBDA line : Trim(line) # "")

RECURSIVE BuildRegistryAllOrNothing(_, _, _)
BuildRegistryAllOrNothing(files, directoryPaths, map) ==
    IF Len(directoryPaths) = 0 THEN map
    ELSE LET dirPath == Trim(directoryPaths[1])
             packageJson == ReadManifest(files, dirPath \o "/package.json")
         IN  IF packageJson.valid /\ packageJson.name # ""
             THEN BuildRegistryAllOrNothing(files, Tail(directoryPaths),
                      [n \in DOMAIN map \cup {packageJson.name} |->
                          IF n = packageJson.name THEN dirPath ELSE map[n]])
             ELSE <<>>

RECURSIVE BuildRegistry(_, _, _)
\* globallyLinkedPackages[packageJson.name] = dirPath.trim() for every listed
\* directory whose manifest can be read and has a name
BuildRegistry(files, directoryPaths, map) ==
    IF Len(directoryPaths) = 0 THEN map
    ELSE LET dirPath == Trim(directoryPaths[1])
             packageJson == ReadManifest(files, dirPath \o "/package.json")
         IN  BuildRegistry(files, Tail(directoryPaths),
                 IF packageJson.valid /\ packageJson.name # ""
                 THEN [n \in DOMAIN map \cup {packageJson.name} |->
                          IF n = packageJson.name THEN dirPath ELSE map[n]]
                 ELSE map)

\* the fs failures injected into the reconciler calls of an execute
SmartFailOps == {NoFail, "symlink", "unlink"}

CurrentManifestPath == input.cwd \o "/package.json"
CurrentDependency == inv.dependenciesToLink[inv.depIndex]
CurrentExternal == inv.externalDependencies[inv.depIndex]

OnSelfLinkErrorThrow == "throw"

\* what the catch around the self-registration 'npm link' does with a failure
OnSelfLinkError == "warn"

\* smart link, from the entry to the self-registration 'npm link'
SmartLinkBegin ==
    /\ Smart("link") /\ inv.pc = "start"
    /\ LET currentPackageJson == ReadManifest(manifests, CurrentManifestPath)
           locals == [inv EXCEPT !.currentPackageJson = currentPackageJson]
       IN  IF ~currentPackageJson.valid
           THEN /\ Return("PACKAGE_JSON_NOT_FOUND: No valid package.json in current directory | Error: invalid package.json | Action: Cannot proceed with smart linking", locals)
                /\ UNCHANGED calls
           ELSE IF currentPackageJson.name = ""
           THEN /\ Return("PACKAGE_NAME_MISSING: package.json must have a name field | Field: name | Requirement: Required for linking | Action: Add name field to package.json", locals)
                /\ UNCHANGED calls
           ELSE IF CurrentScope(currentPackageJson.name) = ""
           THEN /\ Return("PACKAGE_SCOPE_MISSING: Package must have scoped name for smart linking | Format Required: @scope/package | Current: "
                            \o currentPackageJson.name \o " | Action: Use scoped package name", locals)
                /\ UNCHANGED calls
           ELSE IF IsDryRun
           THEN /\ inv' = [locals EXCEPT !.pc = "smart:linkset"]
                /\ UNCHANGED <<calls, result>>
           ELSE /\ inv' = [locals EXCEPT !.pc = "smart:self:await"]
                /\ calls' = StartedIn("npm link", cwd)
                /\ UNCHANGED result
    /\ UNCHANGED <<api, fs, last, manifests, found, input, cwd>>

\* the self-registration ends; a failure is logged as a warning
SmartLinkSelfDone ==
    /\ Smart("link") /\ inv.pc = "smart:self:await"
    /\ \E ok \in BOOLEAN :
        /\ calls' = Ended(ok)
        /\ IF ok \/ OnSelfLinkError = "warn"
           THEN /\ inv' = [inv EXCEPT !.pc = "smart:linkset"]
                /\ UNCHANGED result
           ELSE Raise(CommandError, inv)
    /\ UNCHANGED <<api, fs, last, manifests, found, input, cwd>>

\* Steps 2 and 2.5: the dependencies to link; none ends the command
SmartLinkSet ==
    /\ Smart("link") /\ inv.pc = "smart:linkset"
    /\ LET toLink == AllDependenciesToLink(inv.currentPackageJson, input.externals)
           externalDependencies == ExternalDependencies(inv.currentPackageJson, input.externals)
       IN  IF Len(toLink) = 0
           THEN Return(IF IsDryRun
                       THEN "DRY RUN: Would self-link, no dependencies found to link"
                       ELSE "Self-linked " \o inv.currentPackageJson.name \o ", no dependencies to link",
                       inv)
           ELSE /\ inv' = [inv EXCEPT !.pc = "smart:scopeRoot", !.dependenciesToLink = toLink,
                              !.externalDependencies =
                                  IF DOMAIN input.scopeRoots # {} THEN externalDependencies ELSE <<>>,
                              !.depIndex = 1]
                /\ UNCHANGED result
    /\ UNCHANGED <<api, fs, last, manifests, found, input, cwd, calls>>

\* Step 2.6: an external dependency found under its scope root is registered
\* with 'npm link' run in its directory
SmartScopeRootStart ==
    /\ Smart("link") /\ inv.pc = "smart:scopeRoot"
    /\ inv.depIndex <= Len(inv.externalDependencies)
    /\ LET packageDir == ScopeRootPackageDir(CurrentExternal, input.scopeRoots, input.cwd)
           found_ == /\ packageDir # ""
                     /\ ReadManifest(manifests, packageDir \o "/package.json").valid
                     /\ ReadManifest(manifests, packageDir \o "/package.json").name = CurrentExternal
       IN  IF found_ /\ ~IsDryRun
           THEN /\ cwd' = packageDir
                /\ calls' = Started("npm link")
                /\ inv' = [inv EXCEPT !.pc = "smart:scopeRoot:await", !.originalCwd = cwd]
           ELSE /\ inv' = [inv EXCEPT !.depIndex = @ + 1]
                /\ UNCHANGED <<cwd, calls>>
    /\ UNCHANGED <<api, fs, last, manifests, found, input, result>>

\* the registration ends: a failure is logged as a warning; finally chdir back
SmartScopeRootDone ==
    /\ Smart("link") /\ inv.pc = "smart:scopeRoot:await"
    /\ \E ok \in BOOLEAN : calls' = Ended(ok)
    /\ cwd' = AfterFinally(inv.originalCwd, cwd)
    /\ inv' = [inv EXCEPT !.pc = "smart:scopeRoot", !.depIndex = @ + 1]
    /\ UNCHANGED <<api, fs, last, manifests, found, input, result>>

\* Step 3: the dry run ends here; otherwise the registry is listed
SmartRegistryStart ==
    /\ Smart("link") /\ inv.pc = "smart:scopeRoot"
    /\ inv.depIndex > Len(inv.externalDependencies)
    /\ IF IsDryRun
       THEN /\ Return("DRY RUN: Would self-link and attempt to link "
                        \o ToString(Len(inv.dependenciesToLink)) \o " dependencies", inv)
            /\ UNCHANGED calls
       ELSE /\ calls' = StartedIn("npm ls --link -g -p", cwd)
            /\ inv' = [inv EXCEPT !.pc = "smart:registry:await"]
            /\ UNCHANGED result
    /\ UNCHANGED <<api, fs, last, manifests, found, input, cwd>>

\* what 'npm ls --link -g -p' prints when it succeeds
RegistryListings ==
    {"", "/ws/a\n", "/ws/a\n/ext/lib\n", "/gone\n\n /ext/lib \n", "/ext/noname\n/ws/a\n"}

\* the listing ends: the map name -> directory is built, empty when it failed
SmartRegistryDone ==
    /\ Smart("link") /\ inv.pc = "smart:registry:await"
    /\ \/ /\ calls' = Ended(FALSE)
          /\ inv' = [inv EXCEPT !.pc = "smart:reconcile", !.depIndex = 1,
                        !.globallyLinkedPackages = <<>>]
       \/ \E stdout \in RegistryListings :
          /\ calls' = Ended(TRUE)
          /\ inv' = [inv EXCEPT !.pc = "smart:reconcile", !.depIndex = 1,
                        !.resultStr = stdout,
                        !.globallyLinkedPackages =
                            BuildRegistry(manifests, DirectoryPaths(stdout), <<>>)]
    /\ UNCHANGED <<api, fs, last, manifests, found, input, cwd, result>>

\* Step 4: a dependency the registry knows is reconciled, any other is skipped
\* (reconciled keeps the calls of createSymbolicLink the loop has made)
SmartReconcile ==
    /\ Smart("link") /\ inv.pc = "smart:reconcile"
    /\ inv.depIndex <= Len(inv.dependenciesToLink)
    /\ IF CurrentDependency \in DOMAIN inv.globallyLinkedPackages
       THEN \E failOp \in SmartFailOps :
            LET sourcePath == inv.globallyLinkedPackages[CurrentDependency]
                out == CreateSymbolicLink(fs, CurrentDependency, sourcePath, input.cwd,
                                          IsDryRun, failOp)
            IN  /\ fs' = out.fs
                /\ last' = CallRecord("createSymbolicLink", CurrentDependency, sourcePath,
                                      IsDryRun, failOp, out)
                /\ inv' = [inv EXCEPT !.depIndex = @ + 1,
                              !.done = IF out.ret THEN Append(@, CurrentDependency) ELSE @,
                              !.reconciled = Append(@, [packageName |-> CurrentDependency,
                                                        sourcePath |-> sourcePath,
                                                        ret |-> out.ret])]
       ELSE /\ inv' = [inv EXCEPT !.depIndex = @ + 1]
            /\ UNCHANGED <<fs, last>>
    /\ UNCHANGED <<api, manifests, found, input, cwd, calls, result>>

SmartLinkSummaryCountOnly(name, linkedDependencies) ==
    "Self-linked " \o name \o " and linked " \o ToString(Len(linkedDependencies))
        \o " dependencies"

SmartLinkSummary(name, linkedDependencies) ==
    IF Len(linkedDependencies) > 0
    THEN "Self-linked " \o name \o " and linked " \o ToString(Len(linkedDependencies))
            \o " dependencies: " \o JoinWith(linkedDependencies, ", ")
    ELSE "Self-linked " \o name \o ", no dependencies were available to link"

\* Step 5: the lock file of the current package is regenerated
SmartLockStart ==
    /\ Smart("link") /\ inv.pc = "smart:reconcile"
    /\ inv.depIndex > Len(inv.dependenciesToLink)
    /\ calls' = StartedIn(LockCommand, cwd)
    /\ inv' = [inv EXCEPT !.pc = "smart:lock:await",
                  !.summary = SmartLinkSummary(inv.currentPackageJson.name, inv.done)]
    /\ UNCHANGED <<api, fs, last, manifests, found, input, cwd, result>>

\* the regeneration ends: a failure is logged as a warning; the summary is returned
SmartLockDone ==
    /\ Smart("link") /\ inv.pc = "smart:lock:await"
    /\ \E ok \in BOOLEAN :
        /\ calls' = Ended(ok)
        /\ IF ok \/ OnLockRegenError = "warn"
           THEN Return(inv.summary, inv)
           ELSE Raise(CommandError, inv)
    /\ UNCHANGED <<api, fs, last, manifests, found, input, cwd>>

\* smart unlink, from the entry to the loop over the external dependencies
SmartUnlinkBegin ==
    /\ Smart("unlink") /\ inv.pc = "start"
    /\ LET packageJson == ReadManifest(manifests, CurrentManifestPath)
           locals == [inv EXCEPT !.currentPackageJson = packageJson]
       IN  IF ~Exists(manifests, CurrentManifestPath)
           THEN Return("No package.json found in current directory: " \o input.cwd, locals)
           ELSE IF ~packageJson.valid \/ packageJson.name = ""
           THEN Return("Failed to parse package.json: "
                            \o (IF packageJson.valid THEN "package.json has no name field"
                                ELSE "invalid package.json"), locals)
           ELSE /\ inv' = [locals EXCEPT !.pc = "sunlink:external", !.depIndex = 1,
                              !.externalDependencies =
                                  IF Len(input.externals) > 0
                                  THEN ExternalDependencies(packageJson, input.externals)
                                  ELSE <<>>]
                /\ UNCHANGED result
    /\ UNCHANGED <<api, fs, last, manifests, found, input, cwd, calls>>

\* Step 0: the symlink of the next matching dependency is removed
SmartUnlinkExternal ==
    /\ Smart("unlink") /\ inv.pc = "sunlink:external"
    /\ inv.depIndex <= Len(inv.externalDependencies)
    /\ \E failOp \in SmartFailOps :
        LET out == RemoveSymbolicLink(fs, CurrentExternal, input.cwd, IsDryRun, failOp)
        IN  /\ fs' = out.fs
            /\ last' = CallRecord("removeSymbolicLink", CurrentExternal, "", IsDryRun, failOp, out)
    /\ inv' = [inv EXCEPT !.depIndex = @ + 1]
    /\ UNCHANGED <<api, manifests, found, input, cwd, calls, result>>

UnlinkDryRunMessage(packageName, patterns, cleanNodeModules) ==
    "DRY RUN: Would execute unlink steps for " \o packageName \o ":\n"
    \o (IF Len(patterns) > 0
        THEN "  0. Unlink external dependencies matching patterns: "
                \o JoinWith(patterns, ", ") \o "\n"
        ELSE "")
    \o "  1. npm unlink -g\n"
    \o (IF cleanNodeModules
        THEN "  2. rm -rf node_modules package-lock.json\n  3. npm install\n"
                \o "  4. Check for remaining links with npm ls --link"
        ELSE "  2. Check for remaining links with npm ls --link\n"
                \o "  Note: Use --clean-node-modules flag to also clean and reinstall dependencies")

\* the dry run ends here; otherwise Step 1 removes the global link
SmartUnlinkGlobalStart ==
    /\ Smart("unlink") /\ inv.pc = "sunlink:external"
    /\ inv.depIndex > Len(inv.externalDependencies)
    /\ IF IsDryRun
       THEN /\ Return(UnlinkDryRunMessage(inv.currentPackageJson.name, input.externals,
                                          input.cleanNodeModules), inv)
            /\ UNCHANGED calls
       ELSE /\ calls' = StartedIn("npm unlink -g", cwd)
            /\ inv' = [inv EXCEPT !.pc = "sunlink:global:await"]
            /\ UNCHANGED result
    /\ UNCHANGED <<api, fs, last, manifests, found, input, cwd>>

OnGlobalUnlinkErrorThrow == "throw"

\* what the catch around 'npm unlink -g' does with a failure
OnGlobalUnlinkError == "warn"

\* 'npm unlink -g' ends (a failure is a warning); then the clean, or the scan
SmartUnlinkGlobalDone ==
    /\ Smart("unlink") /\ inv.pc = "sunlink:global:await"
    /\ \E ok \in BOOLEAN :
        IF ok \/ OnGlobalUnlinkError = "warn"
        THEN /\ calls' = Append(Ended(ok),
                             [command |-> IF input.cleanNodeModules
                                          THEN "rm -rf node_modules package-lock.json"
                                          ELSE "npm ls --link --json",
                              cwd |-> cwd, status |-> "pending"])
             /\ inv' = [inv EXCEPT !.pc = IF input.cleanNodeModules THEN "sunlink:clean:await"
                                          ELSE "sunlink:scan:await"]
             /\ UNCHANGED result
        ELSE /\ calls' = Ended(FALSE)
             /\ Raise(CommandError, inv)
    /\ UNCHANGED <<api, fs, last, manifests, found, input, cwd>>

\* 'rm -rf node_modules package-lock.json' ends (a failure is a warning); then 'npm install'
SmartUnlinkCleanDone ==
    /\ Smart("unlink") /\ inv.pc = "sunlink:clean:await"
    /\ \E ok \in BOOLEAN :
        /\ calls' = Append(Ended(ok), [command |-> "npm install", cwd |-> cwd, status |-> "pending"])
        /\ fs' = IF ok THEN RmRf(fs, PathJoin(cwd, "node_modules")) ELSE fs
    /\ inv' = [inv EXCEPT !.pc = "sunlink:install:await"]
    /\ UNCHANGED <<api, last, manifests, found, input, cwd, result>>

\* what a successful 'npm install' leaves: every declared dependency whose slot
\* is free is installed from the registry as a directory
Installed(fsx, manifest, dir) ==
    LET wanted == {SlotOf[dir][d] : d \in
                     {k \in DepNames : \E t \in {"dependencies", "devDependencies"} :
                         manifest.sections[t].present /\ k \in DOMAIN manifest.sections[t].entries}}
        parents == {p \in DOMAIN fsx : \E w \in wanted : IsAncestorOrSelf(p, w) /\ p # w}
    IN  [p \in DOMAIN fsx |->
            IF fsx[p].kind = "absent" /\ (p \in wanted \/ (p \in parents /\ MkdirOk(fsx, p)))
            THEN DirEntry ELSE fsx[p]]

\* 'npm install' ends: a failure is thrown; otherwise the scan for remaining links
SmartUnlinkInstallDone ==
    /\ Smart("unlink") /\ inv.pc = "sunlink:install:await"
    /\ \E ok \in BOOLEAN :
        IF ok \/ OnReinstallError = "warn"
        THEN /\ calls' = Append(Ended(ok), [command |-> "npm ls --link --json", cwd |-> cwd,
                                            status |-> "pending"])
             /\ fs' = IF ok THEN Installed(fs, inv.currentPackageJson, cwd) ELSE fs
             /\ inv' = [inv EXCEPT !.pc = "sunlink:scan:await"]
             /\ UNCHANGED result
        ELSE /\ calls' = Ended(FALSE)
             /\ fs' = fs
             /\ Raise(CommandError, inv)
    /\ UNCHANGED <<api, last, manifests, found, input, cwd>>

\* 'npm ls --link --json' ends, whatever it says: the summary is returned
SmartUnlinkScanDone ==
    /\ Smart("unlink") /\ inv.pc = "sunlink:scan:await"
    /\ \E ok \in BOOLEAN : calls' = Ended(ok)
    /\ Return("Successfully unlinked " \o inv.currentPackageJson.name, inv)
    /\ UNCHANGED <<api, fs, last, manifests, found, input, cwd>>

\* unlink is called, without argument, in the directory in which a smart link
\* that was not a dry run has just returned; linkedBefore keeps the
\* dependencies that link reported as linked
SmartUnlinkAfterLink ==
    /\ Smart("link") /\ inv.pc = "done"
    /\ ~IsDryRun /\ result.kind = "returned"
    /\ Len(inv.done) > 0
    /\ \E clean \in BOOLEAN, patterns \in {<<>>, <<"@acme/a">>} :
        input' = [input EXCEPT !.command = "unlink", !.cleanNodeModules = clean,
                               !.externals = patterns, !.scopeRoots = <<>>]
    /\ inv' = [NoInvocation EXCEPT !.pc = "start", !.linkedBefore = inv.done]
    /\ last' = NoCall
    /\ calls' = <<>>
    /\ result' = NoResult
    /\ UNCHANGED <<api, fs, manifests, found, cwd>>

NextSmart ==
    \/ SmartLinkBegin \/ SmartLinkSelfDone \/ SmartLinkSet \/ SmartScopeRootStart
    \/ SmartScopeRootDone \/ SmartRegistryStart \/ SmartRegistryDone \/ SmartReconcile
    \/ SmartLockStart \/ SmartLockDone
    \/ SmartUnlinkBegin \/ SmartUnlinkExternal \/ SmartUnlinkGlobalStart
    \/ SmartUnlinkGlobalDone \/ SmartUnlinkCleanDone \/ SmartUnlinkInstallDone
    \/ SmartUnlinkScanDone \/ SmartUnlinkAfterLink

\* the manifest of the current package: none, unreadable, nameless, unscoped,
\* or scoped with a choice of dependencies
CurrentManifest(valid, name, deps, devDeps) ==
    [path |-> ConsumerDir \o "/package.json", valid |-> valid, name |-> name,
     sections |-> [s \in {dependencyTypes[n] : n \in 1..Len(dependencyTypes)} |->
                     IF s = "dependencies" /\ deps # {} THEN Section(deps, "^1.0.0")
                     ELSE IF s = "devDependencies" /\ devDeps # {} THEN Section(devDeps, "^1.0.0")
                     ELSE NoSection]]

CurrentManifests ==
    {<<>>, <<CurrentManifest(FALSE, "", {}, {})>>, <<CurrentManifest(TRUE, "", {}, {})>>,
     <<CurrentManifest(TRUE, "consumer", {"lodash"}, {})>>}
    \cup {<<CurrentManifest(TRUE, "@acme/consumer", deps, {})>> : deps \in SUBSET DepNames}
    \cup {<<CurrentManifest(TRUE, "@acme/consumer", {"lodash"}, {"@acme/a"})>>}

\* the manifests of the source directories
SourceManifests ==
    <<[path |-> "/ws/a/package.json", valid |-> TRUE, name |-> "@acme/a",
       sections |-> SectionsWith("", {}, "")],
      [path |-> "/ext/lib/package.json", valid |-> TRUE, name |-> "lodash",
       sections |-> SectionsWith("", {}, "")],
      [path |-> "/ext/noname/package.json", valid |-> TRUE, name |-> "",
       sections |-> SectionsWith("", {}, "")]>>

SmartExternals == {<<>>, <<"lo">>, <<"@acme/a">>}
SmartScopeRoots == {<<>>, [s \in {"@acme"} |-> ".."]}

SmartInputs ==
    {[NoInput EXCEPT !.command = c[1], !.cleanNodeModules = c[2],
                     !.dryRun = d[1], !.commandDryRun = d[2], !.cwd = ConsumerDir,
                     !.externals = e, !.scopeRoots = r] :
        c \in {<<"link", FALSE>>, <<"unlink", FALSE>>, <<"unlink", TRUE>>},
        d \in {<<FALSE, FALSE>>, <<TRUE, FALSE>>, <<FALSE, TRUE>>},
        e \in SmartExternals, r \in SmartScopeRoots}

\* the file systems a smart-mode run starts from
SmartFsStates ==
    {f \in FsStates : \A p \in SlotPaths :
        f[p] \in {Absent, DirEntry, SymlinkTo(RelativeOf[DirnameOf[p]]["/ws/a"])}}

InitSmart ==
    /\ api = "execute"
    /\ fs \in SmartFsStates
    /\ last = NoCall
    /\ \E cur \in CurrentManifests : manifests = cur \o SourceManifests
    /\ found = NoFound
    /\ input \in SmartInputs
    /\ (input.command = "unlink" => DOMAIN input.scopeRoots = {})
    /\ inv = [NoInvocation EXCEPT !.pc = "start"]
    /\ cwd = input.cwd
    /\ calls = <<>>
    /\ result = NoResult

SpecSmart == InitSmart /\ [][NextSmart]_vars

----------------------------------------------------------------------------
(* findLinkedDependencies, the scan behind the status report               *)

IsExternalOutsideNodeModules(target) == ~Includes(target, "node_modules")

\* !target.includes('node_modules') || target.startsWith('..')
IsExternalTarget(target) == ~Includes(target, "node_modules") \/ StartsWith(target, "..")

RECURSIVE LinkedAmong(_, _, _, _)
\* the loop over Object.entries(allDependencies): a dependency whose slot is a
\* symlink with a readable, non-empty target is reported
LinkedAmong(fsx, packagePath, dependencyNames, failOp) ==
    IF Len(dependencyNames) = 0 THEN <<>>
    ELSE LET dependencyName == dependencyNames[1]
             entry == IF packagePath \in TargetDirs /\ dependencyName \in DOMAIN SlotOf[packagePath]
                      THEN fsx[SlotOf[packagePath][dependencyName]] ELSE Absent
             isSymbolicLink == failOp # "lstat" /\ entry.kind = "symlink"
             target == IF failOp = "readlink" THEN "" ELSE entry.target
         IN  (IF isSymbolicLink /\ target # ""
              THEN <<[dependencyName |-> dependencyName, targetPath |-> target,
                      isExternal |-> IsExternalTarget(target)]>>
              ELSE <<>>)
             \o LinkedAmong(fsx, packagePath, Tail(dependencyNames), failOp)

\* a manifest that cannot be read is logged as a warning and yields no record
FindLinkedDependencies(files, fsx, packagePath, failOp) ==
    LET packageJson == ReadManifest(files, PathJoin(packagePath, "package.json"))
    IN  IF packageJson.valid
        THEN LinkedAmong(fsx, packagePath, AllDependencyKeys(packageJson), failOp)
        ELSE <<>>

CallFindLinkedDependencies ==
    /\ api = "status"
    /\ ~found.done
    /\ \E failOp \in {NoFail, "lstat", "readlink"} :
        found' = [target |-> cwd, done |-> TRUE,
                  result |-> FindLinkedDependencies(manifests, fs, cwd, failOp)]
    /\ UNCHANGED <<api, fs, last, manifests, input, inv, cwd, calls, result>>

RECURSIVE PackageStatuses(_, _, _, _)
\* the loop of executeStatus over the discovered manifests: a readable, named
\* package with a linked dependency is pushed
PackageStatuses(discovered, files, fsx, failOp) ==
    IF Len(discovered) = 0 THEN <<>>
    ELSE LET packageJsonLocation == discovered[1]
             packageDir == PackageDir(packageJsonLocation)
             linkedDependencies == FindLinkedDependencies(files, fsx, packageDir, failOp)
         IN  (IF packageJsonLocation.valid /\ packageJsonLocation.name # ""
                    /\ Len(linkedDependencies) > 0
              THEN <<[name |-> packageJsonLocation.name, path |-> packageDir,
                      linkedDependencies |-> linkedDependencies]>>
              ELSE <<>>)
             \o PackageStatuses(Tail(discovered), files, fsx, failOp)

RECURSIVE FormatDependencies(_)
\* one line per linked dependency (the pictograph before External / Internal
\* is written [link])
FormatDependencies(deps) ==
    IF Len(deps) = 0 THEN ""
    ELSE "     " \o (IF deps[1].isExternal THEN "[link] External" ELSE "[link] Internal")
            \o " " \o deps[1].dependencyName \o " -> " \o deps[1].targetPath \o "\n"
            \o FormatDependencies(Tail(deps))

RECURSIVE FormatStatuses(_)
\* the block of one package (the pictograph before the name is written [package])
FormatStatuses(packageStatuses) ==
    IF Len(packageStatuses) = 0 THEN ""
    ELSE "[package] " \o packageStatuses[1].name \o "\n"
            \o "   Path: " \o packageStatuses[1].path \o "\n"
            \o "   Linked dependencies:\n"
            \o FormatDependencies(packageStatuses[1].linkedDependencies)
            \o "\n"
            \o FormatStatuses(Tail(packageStatuses))

StatusReportAlwaysFound(packageStatuses) ==
    "Found " \o ToString(Len(packageStatuses)) \o " package(s) with linked dependencies:\n\n"
        \o FormatStatuses(packageStatuses)

\* the string executeStatus returns
StatusReport(packageStatuses) ==
    IF Len(packageStatuses) = 0 THEN "No linked dependencies found in workspace."
    ELSE "Found " \o ToString(Len(packageStatuses)) \o " package(s) with linked dependencies:\n\n"
            \o FormatStatuses(packageStatuses)

\* execute of link or unlink with the argument 'status': executeStatus
ExecuteStatus ==
    /\ api = "execute" /\ inv.pc = "start"
    /\ FinalPackageArgument = "status"
    /\ \E failOp \in {NoFail, "lstat", "readlink"} :
        LET packageStatuses == PackageStatuses(Discovered, manifests, fs, failOp)
        IN  /\ last' = [NoCall EXCEPT !.fn = "executeStatus", !.failOp = failOp]
            /\ Return(StatusReport(packageStatuses),
                      [inv EXCEPT !.packageStatuses = packageStatuses])
    /\ UNCHANGED <<api, fs, manifests, found, input, cwd, calls>>

NextStatus == CallFindLinkedDependencies \/ ExecuteStatus

\* the targets a link found by the scan may store
StatusTargets ==
    {"../../a", "../../../a", "/Users/dev/other-workspace/a",
     "../node_modules/.store/a", "node_modules/.store/a"}

StatusEntries == {Absent, DirEntry} \cup {SymlinkTo(t) : t \in StatusTargets}

PlaceEntry(fsx, p, entry) ==
    IF entry = Absent THEN fsx ELSE [MkdirP(fsx, DirnameOf[p]) EXCEPT ![p] = entry]

StatusFsStates ==
    {PlaceEntry(PlaceEntry(EmptyFs, SlotOf[ConsumerDir]["@acme/a"], ea),
                SlotOf[ConsumerDir]["lodash"], el) :
        ea \in StatusEntries, el \in StatusEntries}

InitStatus ==
    /\ api = "status"
    /\ fs \in StatusFsStates
    /\ last = NoCall
    /\ manifests \in CurrentManifests
    /\ found = NoFound
    /\ input = [NoInput EXCEPT !.command = "link", !.cwd = ConsumerDir]
    /\ inv = NoInvocation
    /\ cwd = ConsumerDir
    /\ calls = <<>>
    /\ result = NoResult

\* the manifest of the current package when status is asked for: as above, or
\* nameless with a dependency
StatusManifests ==
    CurrentManifests \cup {<<CurrentManifest(TRUE, "", {"@acme/a"}, {})>>}

\* packageArgument (parameter) and runConfig.<command>.packageArgument
StatusArguments == {<<"status", "">>, <<"", "status">>, <<"status", "@acme">>}

\* process.cwd() at the call and runConfig.tree?.directories
StatusPlaces == {<<ConsumerDir, <<>> >>, <<"/ws", <<>> >>, <<"/ws/a", <<"/ws", "/ext">> >>}

StatusInputs ==
    {[NoInput EXCEPT !.command = c, !.packageArgument = a[1], !.configArgument = a[2],
                     !.dryRun = d, !.cwd = w[1], !.directories = w[2]] :
        c \in {"link", "unlink"}, a \in StatusArguments, d \in BOOLEAN, w \in StatusPlaces}

InitStatusRun ==
    /\ api = "execute"
    /\ fs \in StatusFsStates
    /\ last = NoCall
    /\ \E cur \in StatusManifests : manifests = cur \o SourceManifests
    /\ found = NoFound
    /\ input \in StatusInputs
    /\ inv = [NoInvocation EXCEPT !.pc = "start"]
    /\ cwd = input.cwd
    /\ calls = <<>>
    /\ result = NoResult

SpecStatus == (InitStatus \/ InitStatusRun) /\ [][NextStatus]_vars

----------------------------------------------------------------------------
(* execute of the updates command in its scoped mode: neither report,      *)
(* analyze nor interProject is set                                          *)

\* updatesConfig?.scope || runConfig.tree?.packageArgument
ExplicitScope ==
    IF input.updatesScope # "" THEN input.updatesScope ELSE input.treePackageArgument

\* updatesConfig?.scopes || runConfig.publish?.scopedDependencyUpdates: an
\* array, even an empty one, is truthy
ConfiguredScopes ==
    IF input.updatesScopes.defined THEN input.updatesScopes ELSE input.scopedDependencyUpdates

NoScopeMessage ==
    "No scope specified and no default scopes configured.\n\n"
    \o "Usage:\n"
    \o "  kodrdriv updates <scope>           # Update a specific scope\n"
    \o "  kodrdriv tree updates <scope>      # Update scope across tree\n"
    \o "  kodrdriv tree updates --report     # Generate dependency report\n\n"
    \o "Or configure default scopes in your .kodrdriv/config.yml:\n"
    \o "  updates:\n"
    \o "    scopes:\n"
    \o "      - \"@riotprompt\"\n"
    \o "      - \"@eldrforge\"\n\n"
    \o "Or use publish.scopedDependencyUpdates for tree publish integration."

InvalidScopeMessage(scope) ==
    "Invalid scope \"" \o scope \o "\". Scope must start with @ (e.g., \"@fjell\")"

NoInvalidScope(scopes, n) == 0

RECURSIVE FirstInvalidScope(_, _)
\* the index of the first scope the validation loop throws on, 0 when none
FirstInvalidScope(scopes, n) ==
    IF n > Len(scopes) THEN 0
    ELSE IF ~StartsWith(scopes[n], "@") THEN n
    ELSE FirstInvalidScope(scopes, n + 1)

\* `npx npm-check-updates '/${scope.replace('@', '^@')}//' -u`
NcuCommand(scope) == "npx npm-check-updates '/" \o ReplaceFirst(scope, "@", "^@") \o "//' -u"

InstallCommand == "npm install"

CurrentUpdateScope == inv.scopesToUpdate[inv.scopeIndex]

\* updates, from the entry of execute to the loop over the scopes
UpdatesBegin ==
    /\ api = "updates" /\ inv.pc = "start"
    /\ LET scopesToUpdate ==
               IF ExplicitScope # "" THEN <<ExplicitScope>>
               ELSE IF ConfiguredScopes.defined /\ Len(ConfiguredScopes.value) > 0
               THEN ConfiguredScopes.value
               ELSE <<>>
           locals == [inv EXCEPT !.scopesToUpdate = scopesToUpdate]
           invalid == FirstInvalidScope(scopesToUpdate, 1)
       IN  IF Len(scopesToUpdate) = 0
           THEN Raise(NoScopeMessage, locals)
           ELSE IF invalid # 0
           THEN Raise(InvalidScopeMessage(scopesToUpdate[invalid]), locals)
           ELSE /\ inv' = [locals EXCEPT !.pc = "updates:scope", !.scopeIndex = 1]
                /\ UNCHANGED result
    /\ UNCHANGED <<api, fs, last, manifests, found, input, cwd, calls>>

\* runScopedUpdate of the next scope: in a dry run it returns at once,
\* otherwise npm-check-updates is run
UpdatesScopeStart ==
    /\ api = "updates" /\ inv.pc = "updates:scope"
    /\ inv.scopeIndex <= Len(inv.scopesToUpdate)
    /\ IF input.dryRun
       THEN /\ inv' = [inv EXCEPT !.scopeIndex = @ + 1,
                         !.results = Append(@, "Would update dependencies matching "
                                                 \o CurrentUpdateScope \o " scope")]
            /\ UNCHANGED calls
       ELSE /\ calls' = StartedIn(NcuCommand(CurrentUpdateScope), cwd)
            /\ inv' = [inv EXCEPT !.pc = "updates:ncu:await"]
    /\ UNCHANGED <<api, fs, last, manifests, found, input, cwd, result>>

\* what npm-check-updates prints when it succeeds
NcuOutputs ==
    {"", "All dependencies match the latest package versions :)", " @acme/a  ^1.0.0  ->  ^1.1.0"}

\* npm-check-updates ends: its failure is caught and pushed to the results
UpdatesScopeDone ==
    /\ api = "updates" /\ inv.pc = "updates:ncu:await"
    /\ \/ /\ calls' = Ended(FALSE)
          /\ inv' = [inv EXCEPT !.pc = "updates:scope", !.scopeIndex = @ + 1,
                        !.results = Append(@, "Failed: " \o CurrentUpdateScope \o " - "
                                                \o CommandError)]
       \/ \E stdout \in NcuOutputs :
          LET hasUpdates ==
                  /\ stdout # ""
                  /\ ~Includes(stdout, "All dependencies match the latest package versions")
              scopeResult == IF hasUpdates THEN "Updated " \o CurrentUpdateScope
                             ELSE "No updates for " \o CurrentUpdateScope
          IN  /\ calls' = Ended(TRUE)
              /\ inv' = [inv EXCEPT !.pc = "updates:scope", !.scopeIndex = @ + 1,
                            !.results = Append(@, scopeResult),
                            !.anyUpdates = @ \/ StartsWith(scopeResult, "Updated")]
    /\ UNCHANGED <<api, fs, last, manifests, found, input, cwd, result>>

RECURSIVE ResultLines(_)
\* results.map(r => `  - ${r}`).join('\n')
ResultLines(results) ==
    IF Len(results) = 0 THEN ""
    ELSE "  - " \o results[1]
            \o (IF Len(results) > 1 THEN "\n" \o ResultLines(Tail(results)) ELSE "")

UpdatesSummary(scopesToUpdate, results) ==
    IF Len(scopesToUpdate) = 1
    THEN "Updated dependencies matching " \o scopesToUpdate[1] \o " scope"
    ELSE "Processed " \o ToString(Len(scopesToUpdate)) \o " scopes:\n" \o ResultLines(results)

\* after the loop: npm install when a scope was updated, then the summary
UpdatesInstallStart ==
    /\ api = "updates" /\ inv.pc = "updates:scope"
    /\ inv.scopeIndex > Len(inv.scopesToUpdate)
    /\ IF inv.anyUpdates /\ ~input.dryRun
       THEN /\ calls' = StartedIn(InstallCommand, cwd)
            /\ inv' = [inv EXCEPT !.pc = "updates:install:await"]
            /\ UNCHANGED result
       ELSE /\ Return(UpdatesSummary(inv.scopesToUpdate, inv.results), inv)
            /\ UNCHANGED calls
    /\ UNCHANGED <<api, fs, last, manifests, found, input, cwd>>

\* npm install ends: its failure is thrown
UpdatesInstallDone ==
    /\ api = "updates" /\ inv.pc = "updates:install:await"
    /\ \E ok \in BOOLEAN :
        /\ calls' = Ended(ok)
        /\ IF ok THEN Return(UpdatesSummary(inv.scopesToUpdate, inv.results), inv)
           ELSE Raise("Failed to update lock file after dependency updates: "
                        \o CommandError, inv)
    /\ UNCHANGED <<api, fs, last, manifests, found, input, cwd>>

NextUpdates ==
    \/ UpdatesBegin \/ UpdatesScopeStart \/ UpdatesScopeDone
    \/ UpdatesInstallStart \/ UpdatesInstallDone

Unset == [defined |-> FALSE, value |-> <<>>]
ScopeList(list) == [defined |-> TRUE, value |-> list]

\* updates.scope, tree.packageArgument, updates.scopes and publish.scopedDependencyUpdates
UpdatesScopeChoices ==
    {<<"", "", Unset, Unset>>, <<"", "", ScopeList(<<>>), ScopeList(<<"@acme">>)>>,
     <<"@acme", "", Unset, Unset>>, <<"", "@acme", Unset, Unset>>,
     <<"invalid", "", Unset, ScopeList(<<"@acme">>)>>,
     <<"", "", ScopeList(<<"@acme", "@other">>), Unset>>,
     <<"", "", Unset, ScopeList(<<"@acme", "@other", "@third">>)>>,
     <<"", "", ScopeList(<<"@acme", "other", "@third">>), Unset>>,
     <<"", "", ScopeList(<<"@acme", "@other", "third">>), Unset>>,
     <<"", "", ScopeList(<<"bad">>), Unset>>}

UpdatesInputs ==
    {[NoInput EXCEPT !.command = "updates", !.dryRun = d, !.updatesScope = c[1],
                     !.treePackageArgument = c[2], !.updatesScopes = c[3],
                     !.scopedDependencyUpdates = c[4]] :
        d \in BOOLEAN, c \in UpdatesScopeChoices}

InitUpdates ==
    /\ api = "updates"
    /\ fs = EmptyFs
    /\ last = NoCall
    /\ manifests = <<>>
    /\ found = NoFound
    /\ input \in UpdatesInputs
    /\ inv = [NoInvocation EXCEPT !.pc = "start"]
    /\ cwd = input.cwd
    /\ calls = <<>>
    /\ result = NoResult

SpecUpdates == InitUpdates /\ [][NextUpdates]_vars

\* every entry point
Init ==
    \/ InitReconcile \/ InitConsumers \/ InitExplicit \/ InitSmart \/ InitStatus
    \/ InitStatusRun \/ InitUpdates
Next ==
    NextReconcile \/ NextConsumers \/ NextExplicit \/ NextSmart \/ NextStatus \/ NextUpdates
Spec == Init /\ [][Next]_vars

----------------------------------------------------------------------------
(* Properties of the reconcilers, checked under SpecReconcile              *)

\* what the slot and the stored target must be, written out
ExpectedSlot(packageName) ==
    IF packageName = "@acme/a" THEN "/ws/consumer/node_modules/@acme/a"
    ELSE "/ws/consumer/node_modules/lodash"

ExpectedTarget(packageName, sourcePath) ==
    CASE packageName = "@acme/a" /\ sourcePath = "/ws/a" -> "../../../a"
      [] packageName = "@acme/a" /\ sourcePath = "/ext/lib" -> "../../../../ext/lib"
      [] packageName = "lodash" /\ sourcePath = "/ws/a" -> "../../a"
      [] packageName = "lodash" /\ sourcePath = "/ext/lib" -> "../../../ext/lib"
      [] OTHER -> "?"

MutatingOps == {"mkdir:create", "unlink", "rm", "symlink"}
FailedOps == {o \o ":failed" : o \in FsOps}

NoOpFailed(call) == \A n \in 1..Len(call.ops) : call.ops[n] \notin FailedOps
NoMutation(call) == \A n \in 1..Len(call.ops) : call.ops[n] \notin MutatingOps

\* a completed createSymbolicLink call with dryRun false in which no fs call failed
CreatedCleanly ==
    /\ last.fn = "createSymbolicLink"
    /\ ~last.isDryRun
    /\ NoOpFailed(last)

SlotBefore == last.before[ExpectedSlot(last.packageName)]
SlotAfter == fs[ExpectedSlot(last.packageName)]
LinkedCorrectly ==
    SlotAfter = SymlinkTo(ExpectedTarget(last.packageName, last.sourcePath))

\* C4: createSymbolicLink with dryRun false and no failing fs call returns true
\* from every initial slot state (absent, correct symlink, other symlink,
\* directory, file) and leaves the slot node_modules/name or
\* node_modules/@scope/name a symlink storing the relative path from the
\* slot's parent directory to the source directory.
C4_ReconcileEstablishesLink ==
    CreatedCleanly =>
        /\ last.ret
        /\ LinkedCorrectly
        /\ last.branch \in {"absent", "correctTarget", "staleTarget",
                            "occupiedByDirectory", "occupiedByFile"}

C4_Witness ==
    /\ CreatedCleanly
    /\ last.packageName = "@acme/a"
    /\ SlotBefore = SymlinkTo("/abs/elsewhere")
    /\ SlotAfter = SymlinkTo("../../../a")

\* C5: a second createSymbolicLink call with the inputs of a first, successful
\* one takes the correct-target branch, makes no mutating fs call and leaves
\* the file system as the first call left it.
C5_ReconcileIdempotent ==
    (CreatedCleanly /\ last.repeat /\ last.prevRet) =>
        /\ last.branch = "correctTarget"
        /\ NoMutation(last)
        /\ fs = last.before
        /\ last.ret

C5_Witness ==
    /\ CreatedCleanly /\ last.repeat /\ last.prevRet
    /\ last.branch = "correctTarget"
    /\ SlotAfter.kind = "symlink"

\* C6: a slot occupied by a directory is removed recursively (fs.rm), replaced
\* by the correct symlink, with success and a warn-level event; the same for a
\* file (fs.unlink); the repair of a stale symlink logs info events only.
C6_ConflictsWarnRepairsInform ==
    CreatedCleanly =>
        /\ SlotBefore.kind = "dir" =>
              /\ last.ret /\ LinkedCorrectly
              /\ \E n \in 1..Len(last.ops) : last.ops[n] = "rm"
              /\ \E n \in 1..Len(last.logs) : last.logs[n].level = "warn"
        /\ SlotBefore.kind = "file" =>
              /\ last.ret /\ LinkedCorrectly
              /\ \E n \in 1..Len(last.logs) : last.logs[n].level = "warn"
        /\ (SlotBefore.kind = "symlink" /\ last.branch = "staleTarget") =>
              /\ last.ret /\ LinkedCorrectly
              /\ Len(last.logs) > 0
              /\ \A n \in 1..Len(last.logs) : last.logs[n].level = "info"
        /\ (SlotBefore.kind = "symlink"
              /\ SlotBefore.target # ExpectedTarget(last.packageName, last.sourcePath)) =>
              last.branch = "staleTarget"

C6_Witness ==
    /\ CreatedCleanly
    /\ SlotBefore.kind = "dir"
    /\ SlotAfter.kind = "symlink"
    /\ \E n \in 1..Len(last.logs) : last.logs[n].level = "warn"

\* C7: removeSymbolicLink with dryRun false: when no fs call fails, an absent
\* slot gives true and no change, a non-symlink entry gives false and stays, a
\* symlink is deleted (and nothing else) with true; and whatever fails, no
\* entry that is not a symlink is ever changed or deleted.
C7_RemoveOnlySymlinks ==
    (last.fn = "removeSymbolicLink" /\ ~last.isDryRun) =>
        /\ NoOpFailed(last) =>
              /\ SlotBefore.kind = "absent" => (last.ret /\ fs = last.before)
              /\ SlotBefore.kind \in {"dir", "file"} => (~last.ret /\ fs = last.before)
              /\ SlotBefore.kind = "symlink" =>
                    /\ last.ret
                    /\ fs = [last.before EXCEPT ![ExpectedSlot(last.packageName)] = Absent]
        /\ \A p \in FsPaths : last.before[p].kind # "symlink" => fs[p] = last.before[p]

C7_Witness ==
    /\ last.fn = "removeSymbolicLink" /\ ~last.isDryRun
    /\ SlotBefore.kind = "dir"
    /\ ~last.ret
    /\ SlotAfter.kind = "dir"

ReconcilerCall == last.fn \in {"createSymbolicLink", "removeSymbolicLink"}

\* an fs operation of the call failed with an error other than not-found
SomeOpFailed == \E n \in 1..Len(last.ops) : last.ops[n] \in FailedOps

\* the warning of the outer catch is the last event logged
WarnedLast ==
    /\ Len(last.logs) > 0
    /\ last.logs[Len(last.logs)] =
        Log("warn", IF last.fn = "createSymbolicLink"
                    THEN "SYMLINK_CREATE_FAILED" ELSE "UNLINK_SYMLINK_REMOVE_FAILED")

\* C36: no call of createSymbolicLink or removeSymbolicLink lets an error
\* out; when an fs operation of the call fails (mkdir, lstat with an error
\* other than not-found, readlink, unlink, rm or symlink) the call logs the
\* warning of its outer catch and returns false; a failing mkdir of
\* createSymbolicLink and a failing lstat of removeSymbolicLink are reached
\* whatever occupies the slot.
C36_ReconcilersNeverRaise ==
    ReconcilerCall =>
        /\ ~last.thrown
        /\ SomeOpFailed => (~last.ret /\ WarnedLast)
        /\ (~last.isDryRun /\ last.fn = "createSymbolicLink" /\ last.failOp = "mkdir")
            => SomeOpFailed
        /\ (~last.isDryRun /\ last.fn = "removeSymbolicLink" /\ last.failOp = "lstat")
            => SomeOpFailed

\* createSymbolicLink has returned false after fs.rm failed on a directory
\* that occupied the slot
C36_Witness ==
    /\ api = "reconcile"
    /\ last.fn = "createSymbolicLink" /\ last.branch = "occupiedByDirectory"
    /\ last.failOp = "rm" /\ SomeOpFailed
    /\ ~last.ret /\ ~last.thrown
    /\ SlotBefore.kind = "dir"

\* C37: whenever createSymbolicLink returns false, the dependency slot holds
\* the entry it held before the call: a slot that was occupied by a stale
\* symlink, a directory or a file is not left absent when the creation of
\* the new symlink fails.
C37_FailedReconcileKeepsSlot ==
    (last.fn = "createSymbolicLink" /\ ~last.ret) => SlotAfter = SlotBefore

----------------------------------------------------------------------------
(* Properties of findConsumingPackages, checked under SpecConsumers        *)

SectionNames == {dependencyTypes[n] : n \in 1..Len(dependencyTypes)}

\* T is a key of one of the four dependency sections of the manifest
DeclaresKey(file, T) ==
    \E t \in SectionNames : file.sections[t].present /\ T \in DOMAIN file.sections[t].entries

ReturnedPaths == {found.result[n].path : n \in 1..Len(found.result)}

ManifestDir(n) == "/ws/p" \o ToString(n)

\* C9: every package findConsumingPackages returns declares the target as a key
\* of one of its four dependency sections and has another name than the target.
C9_ConsumersSound ==
    found.done =>
        \A n \in 1..Len(found.result) :
            \E m \in 1..Len(manifests) :
                /\ ManifestDir(m) = found.result[n].path
                /\ manifests[m].name = found.result[n].name
                /\ manifests[m].valid
                /\ DeclaresKey(manifests[m], found.target)
                /\ manifests[m].name # found.target

C9_Witness ==
    /\ found.done
    /\ Len(found.result) = 1
    /\ Len(manifests) = 2
    /\ \E m \in 1..2 : manifests[m].valid /\ ~DeclaresKey(manifests[m], found.target)

\* C10: findConsumingPackages returns every parsed, named package that has the
\* target as a key in any section and is not the target itself, whatever the
\* version specifier stored under the key.
C10_ConsumersExact ==
    found.done =>
        \A m \in 1..Len(manifests) :
            (/\ manifests[m].valid
             /\ manifests[m].name # ""
             /\ manifests[m].name # found.target
             /\ DeclaresKey(manifests[m], found.target))
            => ManifestDir(m) \in ReturnedPaths


----------------------------------------------------------------------------
(* Properties of execute                                                    *)

Finished == api = "execute" /\ inv.pc = "done"

\* the subprocess calls that link a source into a consumer: 'npm link <pkg>'
IsLinkIn(call) == StartsWith(call.command, "npm link ")

FailedLinkIn(n) == IsLinkIn(calls[n]) /\ calls[n].status = "failed"

\* C1: in explicit link without dry run, a failed link-in in a consumer is the
\* last subprocess call of the invocation (no later consumer, no later source,
\* no lock regeneration), and execute raises the wrapped error instead of
\* returning a summary.
C1_LinkConsumerFailureAborts ==
    (Explicit("link") /\ ~IsDryRun) =>
        \A n \in 1..Len(calls) :
            FailedLinkIn(n) =>
                /\ n = Len(calls)
                /\ Finished
                /\ result.kind = "raised"
                /\ StartsWith(result.value, "Failed to link source package ")
                /\ inv.done = NamesOf(SubSeq(inv.packages, 1, inv.pkgIndex - 1))

\* the link-in fails in a consumer that is neither the last consumer of its
\* source nor a consumer of the last source
C1_Witness ==
    /\ Explicit("link") /\ ~IsDryRun /\ Finished
    /\ Len(calls) > 0 /\ FailedLinkIn(Len(calls))
    /\ inv.consumerIndex < Len(inv.consumingPackages)
    /\ inv.pkgIndex < Len(inv.packages)

RECURSIVE ConsumerUnlinks(_, _)
ConsumerUnlinks(consumers, name) ==
    IF Len(consumers) = 0 THEN <<>>
    ELSE <<[command |-> "npm unlink " \o name, cwd |-> consumers[1].path]>>
            \o ConsumerUnlinks(Tail(consumers), name)

RECURSIVE UnlinkPlan(_, _)
\* the subprocess calls of an explicit unlink in which nothing fails: per
\* selected source, one unlink in each of its consumers, then its own
UnlinkPlan(files, packages) ==
    IF Len(packages) = 0 THEN <<>>
    ELSE ConsumerUnlinks(FindConsumingPackages(files, packages[1].name), packages[1].name)
            \o <<[command |-> "npm unlink", cwd |-> packages[1].path]>>
            \o UnlinkPlan(files, Tail(packages))

Attempted == [n \in 1..Len(calls) |-> [command |-> calls[n].command, cwd |-> calls[n].cwd]]

IsPrefix(a, b) == Len(a) <= Len(b) /\ a = SubSeq(b, 1, Len(a))

\* C2: in explicit unlink without dry run, whichever commands fail, the calls
\* attempted are those of the failure-free run in the same order; execute
\* raises only before its first call; and once every call is made it returns
\* the summary naming exactly the selected sources.
C2_UnlinkFailuresSwallowed ==
    (Explicit("unlink") /\ ~IsDryRun) =>
        /\ IsPrefix(Attempted, UnlinkPlan(Discovered, inv.packages))
        /\ result.kind = "raised" => calls = <<>>
        /\ (Finished /\ result.kind = "returned" /\ Len(inv.packages) > 0) =>
            /\ Attempted = UnlinkPlan(Discovered, inv.packages)
            /\ result.value = UnlinkSummary(NamesOf(inv.packages))

\* two sources are unlinked although a consumer unlink that is not the last
\* call and a source's own unlink both failed
C2_Witness ==
    /\ Explicit("unlink") /\ ~IsDryRun /\ Finished /\ result.kind = "returned"
    /\ Len(inv.packages) >= 2
    /\ \E n \in 1..Len(calls) :
        /\ n < Len(calls)
        /\ StartsWith(calls[n].command, "npm unlink ")
        /\ calls[n].status = "failed"
    /\ \E n \in 1..Len(calls) : calls[n].command = "npm unlink" /\ calls[n].status = "failed"

\* the positions at which an iteration over sources, consumers, dependencies
\* or lock files starts, or at which execute has returned or raised
IterationStarts ==
    {"link:package", "link:consumer", "link:lock", "unlink:package", "unlink:consumer",
     "smart:scopeRoot", "smart:reconcile", "sunlink:external", "done"}

\* C3: in link and unlink, smart or explicit, the working directory when
\* execute returns or raises, and at the start of every iteration, is the one
\* execute was called in, whichever subprocess calls fail.
C3_CwdRestored ==
    (api = "execute" /\ inv.pc \in IterationStarts) => cwd = input.cwd

\* execute raised after a subprocess that ran in another directory failed
C3_Witness ==
    /\ Finished /\ result.kind = "raised"
    /\ Len(calls) > 0
    /\ calls[Len(calls)].status = "failed"
    /\ calls[Len(calls)].cwd # input.cwd
    /\ \E n \in 1..Len(calls) : calls[n].command = "npm link" /\ calls[n].cwd # input.cwd

\* runConfig.dryRun or the command's own dryRun is set
DryRunRequested == input.dryRun \/ input.commandDryRun

DryExecute == api = "execute" /\ DryRunRequested

\* a reconciler call with dryRun true returned true and changed nothing
DryReconcile ==
    (last.fn \in {"createSymbolicLink", "removeSymbolicLink"} /\ last.isDryRun) =>
        /\ last.ret
        /\ NoMutation(last)
        /\ fs = last.before

\* a dry run starts no subprocess and leaves every filesystem entry as it is
DryStep == DryExecute => (calls' = calls /\ calls = <<>> /\ fs' = fs)

\* C8 as stated: a dry run of link or unlink, smart or explicit, starts no
\* package-manager command, changes no filesystem entry and returns a string
\* without raising; the reconcilers called with dryRun true return true and
\* mutate nothing.
C8_DryRunAlwaysReturns ==
    /\ [][DryStep]_vars
    /\ [](DryReconcile)
    /\ []((DryExecute /\ Finished) => result.kind = "returned")

\* C8 (amended): as above, except that execute returns a string when the
\* package argument, if there is one, starts with '@' or is 'status', and
\* raises otherwise.
C8_DryRunNoEffects ==
    /\ [][DryStep]_vars
    /\ [](DryReconcile)
    /\ []((DryExecute /\ Finished) =>
            (result.kind = "returned"
                <=> (FinalPackageArgument \in {"", "status"}
                        \/ StartsWith(FinalPackageArgument, "@"))))

\* a dry run of smart unlink has gone over a slot holding a symlink and returned
C8_Witness ==
    /\ DryExecute /\ Finished /\ result.kind = "returned"
    /\ last.fn = "removeSymbolicLink" /\ last.isDryRun
    /\ last.before[SlotOf[input.cwd][last.packageName]].kind = "symlink"


\* A depends on B but not on C, B depends on C, and C is the package to (un)link
Chain(A, B, C) ==
    /\ A.name # B.name /\ B.name # C.name /\ A.name # C.name
    /\ DeclaresKey(A, B.name) /\ ~DeclaresKey(A, C.name) /\ DeclaresKey(B, C.name)
    /\ FinalPackageArgument = C.name

Chains ==
    {t \in (1..Len(manifests)) \X (1..Len(manifests)) \X (1..Len(manifests)) :
        Chain(manifests[t[1]], manifests[t[2]], manifests[t[3]])}

ExplicitRun == api = "execute" /\ FinalPackageArgument # "" /\ ~IsDryRun

\* the commands run for A -> B -> C stay out of A: none runs in A's directory,
\* the link-in / unlink of C runs in B's directory only, A's lock file is
\* not among those regenerated
ChainCalls(A, B, C) ==
    /\ \A n \in 1..Len(calls) :
        /\ calls[n].cwd # PackageDir(A)
        /\ calls[n].command \in {"npm link " \o C.name, "npm unlink " \o C.name}
            => calls[n].cwd = PackageDir(B)
    /\ ~InSeq(PackageDir(A), inv.lockPaths)

\* no dependency slot of A changes in a step
ChainStep ==
    (ExplicitRun /\ \E t \in Chains : PackageDir(manifests[t[1]]) \in TargetDirs) => fs' = fs

\* C11: given A -> B -> C with A not depending on C, explicit link and unlink
\* of C run the link-in / unlink command in B's directory only, run no command
\* in A's directory, change none of A's dependency slots and do not
\* regenerate A's lock file.
C11_NonTransitive ==
    /\ [](ExplicitRun =>
            \A t \in Chains : ChainCalls(manifests[t[1]], manifests[t[2]], manifests[t[3]]))
    /\ [][ChainStep]_vars

\* link of @acme/a has ended: linked into @acme/b, whose lock file was
\* regenerated, with @acme/consumer depending on @acme/b only and holding a
\* link from an earlier run
C11_Witness ==
    /\ ExplicitRun /\ Finished /\ result.kind = "returned"
    /\ \E t \in Chains : PackageDir(manifests[t[1]]) = ConsumerDir
    /\ \E n \in 1..Len(calls) :
        calls[n].command = "npm link @acme/a" /\ calls[n].cwd = "/ws/b" /\ calls[n].status = "ok"
    /\ InSeq("/ws/b", inv.lockPaths)
    /\ fs # EmptyFs


\* the manifest of the directory execute is called in, as the run read it
Current == inv.currentPackageJson

\* the names the current package declares in any of its dependency sections
DeclaredNames(file) ==
    UNION {IF file.sections[t].present THEN DOMAIN file.sections[t].entries ELSE {} :
              t \in SectionNames}

\* name is matched by a configured pattern: equal to it, or starting with it
PatternMatches(name) ==
    \E n \in 1..Len(input.externals) : StartsWith(name, input.externals[n])

\* a scoped current package with nothing to link, in a smart link that is not a dry run
NothingToLink ==
    /\ api = "execute" /\ input.command = "link" /\ FinalPackageArgument = ""
    /\ ~DryRunRequested
    /\ inv.pc # "start"
    /\ Current.valid /\ StartsWith(Current.name, "@")
    /\ \A d \in DeclaredNames(Current) :
        /\ ~StartsWith(d, Split(Current.name, "/")[1] \o "/")
        /\ ~PatternMatches(d)

\* C12: a smart link (not a dry run) of a scoped package with no same-scope
\* dependency and no dependency matching an external pattern runs the
\* self-registration 'npm link' and nothing else: no other subprocess, no
\* reconcile, no filesystem change; it returns 'Self-linked <name>, no
\* dependencies to link'.
C12_NothingToLink ==
    /\ [](NothingToLink =>
            /\ Len(calls) <= 1
            /\ \A n \in 1..Len(calls) : calls[n].command = "npm link" /\ calls[n].cwd = input.cwd
            /\ last = NoCall
            /\ Finished =>
                /\ Len(calls) = 1
                /\ result = [kind |-> "returned",
                             value |-> "Self-linked " \o Current.name \o ", no dependencies to link"])
    /\ [][NothingToLink => fs' = fs]_vars

\* @acme/consumer depends only on lodash, the external pattern is '@acme/a',
\* and the run has ended after self-registering
C12_Witness ==
    /\ NothingToLink /\ Finished
    /\ DeclaredNames(Current) = {"lodash"}
    /\ Len(input.externals) > 0
    /\ result.value = "Self-linked @acme/consumer, no dependencies to link"
    /\ Len(calls) = 1 /\ calls[1].status = "ok"


ManifestNamed(name) == CHOOSE f \in {manifests[n] : n \in 1..Len(manifests)} : f.name = name

\* link with the scope argument '@acme' (not a dry run) over the workspace
\* @acme/a, @acme/b, @acme/consumer in which @acme/consumer depends on both
\* others, has ended without a failing link command
ScopeScenario ==
    /\ api = "execute" /\ input.command = "link" /\ FinalPackageArgument = "@acme"
    /\ ~DryRunRequested
    /\ [n \in 1..Len(Discovered) |-> Discovered[n].name]
            = <<"@acme/a", "@acme/b", "@acme/consumer">>
    /\ {"@acme/a", "@acme/b"} \subseteq DeclaredNames(ManifestNamed("@acme/consumer"))
    /\ Finished
    /\ \A n \in 1..Len(calls) : calls[n].status = "failed" => calls[n].command = LockCommand

\* the directories in which 'npm link' registered a source
Registered == {calls[n].cwd : n \in {m \in 1..Len(calls) : calls[m].command = "npm link"}}

\* the link-in calls made in the directory of @acme/consumer
LinkInsOfConsumer ==
    SelectSeq(calls, LAMBDA c : IsLinkIn(c) /\ c.cwd = "/ws/consumer")

TwoLinkIns ==
    [n \in 1..Len(LinkInsOfConsumer) |-> LinkInsOfConsumer[n].command]
        = <<"npm link @acme/a", "npm link @acme/b">>

\* C13 as stated: the scenario registers @acme/a and @acme/b, makes exactly
\* two link-in calls in @acme/consumer, and returns the summary
\* 'Successfully linked 2 package(s): @acme/a, @acme/b'.
C13_ScopeScenarioTwo ==
    ScopeScenario =>
        /\ {"/ws/a", "/ws/b"} \subseteq Registered
        /\ TwoLinkIns
        /\ result = [kind |-> "returned",
                     value |-> "Successfully linked 2 package(s): @acme/a, @acme/b"]

\* C13 (amended): @acme/consumer is in the scope too, so the scenario
\* registers all three packages, makes exactly two link-in calls in
\* @acme/consumer, and returns the summary
\* 'Successfully linked 3 package(s): @acme/a, @acme/b, @acme/consumer'.
C13_ScopeScenario ==
    ScopeScenario =>
        /\ Registered = {"/ws/a", "/ws/b", "/ws/consumer"}
        /\ TwoLinkIns
        /\ result = [kind |-> "returned",
                     value |-> "Successfully linked 3 package(s): @acme/a, @acme/b, @acme/consumer"]

\* the scenario has ended with every command, lock regeneration included, succeeding
C13_Witness ==
    /\ ScopeScenario
    /\ Len(calls) > 0
    /\ \A n \in 1..Len(calls) : calls[n].status = "ok"
    /\ \E n \in 1..Len(calls) : calls[n].command = LockCommand


\* the manifests stored at <cwd>/package.json
CurrentFiles ==
    {manifests[n] : n \in {m \in 1..Len(manifests) : manifests[m].path = input.cwd \o "/package.json"}}

SmartLinkRun == api = "execute" /\ input.command = "link" /\ FinalPackageArgument = ""

ManifestUnusable == CurrentFiles = {} \/ \E f \in CurrentFiles : ~f.valid
NameMissing == \E f \in CurrentFiles : f.valid /\ f.name = ""
ScopeMissing == \E f \in CurrentFiles : f.valid /\ f.name # "" /\ ~StartsWith(f.name, "@")

\* C15: a smart link whose current manifest is missing or invalid, has no
\* name, or has a name without scope returns a descriptive string instead of
\* raising, having started no subprocess, made no reconciler call and changed
\* no filesystem entry.
C15_SmartLinkDegrades ==
    /\ []((SmartLinkRun /\ (ManifestUnusable \/ NameMissing \/ ScopeMissing)) =>
            /\ calls = <<>>
            /\ last = NoCall
            /\ Finished =>
                /\ result.kind = "returned"
                /\ ManifestUnusable => StartsWith(result.value, "PACKAGE_JSON_NOT_FOUND")
                /\ NameMissing => StartsWith(result.value, "PACKAGE_NAME_MISSING")
                /\ ScopeMissing => StartsWith(result.value, "PACKAGE_SCOPE_MISSING"))
    /\ [][(SmartLinkRun /\ (ManifestUnusable \/ NameMissing \/ ScopeMissing)) => fs' = fs]_vars

\* a smart link, not a dry run, of the unscoped package 'consumer' has ended
C15_Witness ==
    /\ SmartLinkRun /\ ScopeMissing /\ Finished /\ ~DryRunRequested
    /\ \E f \in CurrentFiles : f.name = "consumer" /\ DeclaredNames(f) # {}
    /\ Len(input.externals) > 0

ExecuteRun == api = "execute"
SmartRun == ExecuteRun /\ FinalPackageArgument = ""
ExplicitLinkRun == ExecuteRun /\ input.command = "link" /\ FinalPackageArgument # ""

Failed(command) == \E n \in 1..Len(calls) : calls[n].command = command /\ calls[n].status = "failed"

\* a consumer relink failed in explicit link
RelinkFailed == ExplicitLinkRun /\ \E n \in 1..Len(calls) : FailedLinkIn(n)

\* the reinstall of a clean smart unlink failed
ReinstallFailed == SmartRun /\ input.command = "unlink" /\ Failed("npm install")

\* the registration of a source failed in explicit link
RegistrationFailed == ExplicitLinkRun /\ Failed("npm link")

\* the package argument is not a scope or a scoped name
ArgumentInvalid ==
    FinalPackageArgument \notin {"", "status"} /\ ~StartsWith(FinalPackageArgument, "@")

ManifestMissing == SmartRun /\ CurrentFiles = {}

\* execute returns on success and raises on a failed relink or reinstall
ExitOtherwise ==
    /\ (RelinkFailed \/ ReinstallFailed) => result.kind = "raised"
    /\ (~ArgumentInvalid /\ \A n \in 1..Len(calls) : calls[n].status = "ok")
        => result.kind = "returned"

\* C16 as stated: execute returns a summary string on success and raises when
\* the manifest of the current package is missing in smart mode, when a
\* consumer relink fails in explicit link, and when the reinstall fails in
\* clean unlink.
C16_ExitRaisesOnMissingManifest ==
    (ExecuteRun /\ Finished) =>
        /\ ExitOtherwise
        /\ ManifestMissing => result.kind = "raised"

\* C16 (amended): execute raises exactly when the package argument is
\* invalid, a source registration or consumer relink fails in explicit link,
\* or the reinstall fails in clean unlink; otherwise it returns a string: in
\* particular a missing manifest in smart mode is reported by the returned
\* string, not raised.
C16_ExitBehaviour ==
    (ExecuteRun /\ Finished) =>
        /\ ExitOtherwise
        /\ result.kind \in {"returned", "raised"}
        /\ result.kind = "raised"
            <=> (ArgumentInvalid \/ RelinkFailed \/ RegistrationFailed \/ ReinstallFailed)
        /\ ManifestMissing =>
            /\ result.kind = "returned"
            /\ input.command = "link" => StartsWith(result.value, "PACKAGE_JSON_NOT_FOUND")
            /\ input.command = "unlink" =>
                result.value = "No package.json found in current directory: " \o input.cwd

\* a smart unlink, not a dry run, called where there is no package.json has ended
C16_Witness ==
    /\ ManifestMissing /\ Finished /\ ~DryRunRequested
    /\ input.command = "unlink"
    /\ result.kind = "returned"

FailedRegistration(n) == calls[n].command = "npm link" /\ calls[n].status = "failed"

\* C17: in explicit link without dry run, a failed registration 'npm link' of
\* a source S is the last subprocess call of the invocation: execute raises
\* the wrapped error, no link-in of S is attempted, S is not counted as
\* linked and no later source is processed.
C17_LinkSourceFailureAborts ==
    (Explicit("link") /\ ~IsDryRun) =>
        \A n \in 1..Len(calls) :
            FailedRegistration(n) =>
                /\ n = Len(calls)
                /\ Finished
                /\ result = [kind |-> "raised",
                             value |-> "Failed to link source package " \o CurrentPackage.name
                                        \o ": " \o CommandError]
                /\ calls[n].cwd = CurrentPackage.path
                /\ ~InSeq(CurrentPackage.name, inv.done)
                /\ inv.done = NamesOf(SubSeq(inv.packages, 1, inv.pkgIndex - 1))
                /\ \A m \in 1..Len(calls) : calls[m].command # "npm link " \o CurrentPackage.name

\* the registration fails for a source that has a consumer and is not the last source
C17_Witness ==
    /\ Explicit("link") /\ ~IsDryRun /\ Finished
    /\ Len(calls) > 0 /\ FailedRegistration(Len(calls))
    /\ inv.pkgIndex < Len(inv.packages)
    /\ \E n \in 1..Len(Discovered) :
        Discovered[n].name # CurrentPackage.name /\ DeclaresKey(Discovered[n], CurrentPackage.name)

RegistryQueried == \E n \in 1..Len(calls) : calls[n].command = "npm ls --link -g -p"

\* a dependency of the link set that the registry built by the run knows
Available == \E n \in 1..Len(inv.dependenciesToLink) :
                inv.dependenciesToLink[n] \in DOMAIN inv.globallyLinkedPackages

\* C18: in a smart link without dry run, a failed 'npm link', be it the
\* self-registration or the registration of a source found under a scope
\* root, is never raised: the run goes on to the link set, queries the
\* registry, reconciles the dependencies the registry knows, and returns its
\* 'Self-linked ...' summary.
C18_SmartRegistrationNonFatal ==
    (SmartLinkRun /\ ~DryRunRequested /\ Failed("npm link")) =>
        /\ result.kind # "raised"
        /\ Finished =>
            /\ result.kind = "returned"
            /\ StartsWith(result.value, "Self-linked " \o Current.name)
            /\ Len(AllDependenciesToLink(Current, input.externals)) > 0 =>
                /\ inv.dependenciesToLink = AllDependenciesToLink(Current, input.externals)
                /\ RegistryQueried
                /\ Available => last.fn = "createSymbolicLink"

\* the self-registration and a scope-root registration both failed, and a
\* dependency was linked all the same
C18_Witness ==
    /\ SmartLinkRun /\ ~DryRunRequested /\ Finished
    /\ Len(calls) > 1
    /\ calls[1].command = "npm link" /\ calls[1].status = "failed"
    /\ \E n \in 2..Len(calls) :
        calls[n].command = "npm link" /\ calls[n].status = "failed" /\ calls[n].cwd # input.cwd
    /\ Len(inv.done) > 0

\* the registry listing has ended
RegistryBuilt ==
    /\ SmartLinkRun
    /\ \E n \in 1..Len(calls) :
        calls[n].command = "npm ls --link -g -p" /\ calls[n].status # "pending"

\* the directories the listing printed, one per non-blank line
ListedDirs ==
    LET lines == Split(inv.resultStr, "\n")
    IN  {Trim(lines[n]) : n \in {m \in 1..Len(lines) : Trim(lines[m]) # ""}}

\* name -> directory for the listed directories holding a readable, named manifest
ReadableListed ==
    {<<manifests[n].name, PackageDir(manifests[n])>> :
        n \in {m \in 1..Len(manifests) :
                /\ PackageDir(manifests[m]) \in ListedDirs
                /\ manifests[m].valid
                /\ manifests[m].name # ""}}

RegistryPairs ==
    {<<name, inv.globallyLinkedPackages[name]>> : name \in DOMAIN inv.globallyLinkedPackages}

\* C19: the registry built by a smart link maps name -> directory for
\* exactly the listed directories whose manifest is readable and named; it
\* is empty when the listing command failed; in neither case does execute
\* raise, and it returns its 'Self-linked ...' summary.
C19_RegistryDegrades ==
    /\ SmartLinkRun => result.kind # "raised"
    /\ RegistryBuilt =>
        /\ Failed("npm ls --link -g -p") => DOMAIN inv.globallyLinkedPackages = {}
        /\ ~Failed("npm ls --link -g -p") => RegistryPairs = ReadableListed
        /\ Finished => (result.kind = "returned" /\ StartsWith(result.value, "Self-linked "))

\* the listing named a directory without manifest before /ext/lib, and lodash
\* was linked from /ext/lib
C19_Witness ==
    /\ RegistryBuilt /\ Finished
    /\ "/gone" \in ListedDirs
    /\ RegistryPairs = {<<"lodash", "/ext/lib">>}
    /\ InSeq("lodash", inv.done)

SmartUnlinkRun == api = "execute" /\ input.command = "unlink" /\ FinalPackageArgument = ""

Attempts(command) == {n \in 1..Len(calls) : calls[n].command = command}

\* C20: in a smart unlink, 'npm install' is run only with the
\* clean-node-modules flag set and outside a dry run; when it fails, it is
\* the last subprocess call: execute raises, the scan for remaining links is
\* not run and no 'Successfully unlinked' summary is returned.
C20_ReinstallFailureFatal ==
    SmartUnlinkRun =>
        /\ Attempts("npm install") # {} => (input.cleanNodeModules /\ ~DryRunRequested)
        /\ Failed("npm install") =>
            /\ calls[Len(calls)].command = "npm install"
            /\ Attempts("npm ls --link --json") = {}
            /\ Finished
            /\ result.kind = "raised"
            /\ ~StartsWith(result.value, "Successfully unlinked")

\* the reinstall failed after node_modules had been removed
C20_Witness ==
    /\ SmartUnlinkRun /\ Finished /\ Failed("npm install")
    /\ \E n \in Attempts("rm -rf node_modules package-lock.json") : calls[n].status = "ok"
    /\ fs = EmptyFs
    /\ DeclaredNames(Current) # {}

\* the manifest of the current package is there, readable and named
ManifestUsable == Current.valid /\ Current.name # ""

\* the dependencies Step 0 of smart unlink goes over
UnlinkExternals ==
    IF Len(input.externals) > 0 THEN ExternalDependencies(Current, input.externals) ELSE <<>>

\* the subprocess calls of a smart unlink in which nothing fails
SmartUnlinkPlan ==
    <<"npm unlink -g">>
    \o (IF input.cleanNodeModules
        THEN <<"rm -rf node_modules package-lock.json", "npm install">> ELSE <<>>)
    \o <<"npm ls --link --json">>

Commands == [n \in 1..Len(calls) |-> calls[n].command]

\* a reconciler call is made only before the first subprocess call
ExternalsFirst == (SmartUnlinkRun /\ last' # last) => (calls = <<>> /\ calls' = <<>>)

\* C21: a smart unlink that is not a dry run removes the links of every
\* dependency matching an external pattern, then runs 'npm unlink -g', then
\* (with the clean flag) the clean and 'npm install', then the scan for
\* remaining links, all in the directory it was called in; whichever of the
\* removals, the global unlink and the scan fail, the later steps are
\* attempted, and unless the reinstall fails execute returns
\* 'Successfully unlinked <package name>'.
C21_SmartUnlinkOrder ==
    /\ []((SmartUnlinkRun /\ ~DryRunRequested /\ ManifestUsable) =>
            /\ IsPrefix(Commands, SmartUnlinkPlan)
            /\ \A n \in 1..Len(calls) : calls[n].cwd = input.cwd
            /\ calls # <<>> => inv.depIndex = Len(UnlinkExternals) + 1
            /\ result.kind = "raised" => Failed("npm install")
            /\ (Finished /\ ~Failed("npm install")) =>
                /\ Commands = SmartUnlinkPlan
                /\ result = [kind |-> "returned",
                             value |-> "Successfully unlinked " \o Current.name])
    /\ [][ExternalsFirst]_vars

\* the removal of an external link, the global unlink and the scan all
\* failed, and the summary was returned
C21_Witness ==
    /\ SmartUnlinkRun /\ ~DryRunRequested /\ Finished
    /\ result.kind = "returned"
    /\ last.fn = "removeSymbolicLink" /\ ~last.ret /\ last.failOp # NoFail
    /\ Failed("npm unlink -g")
    /\ Failed("npm ls --link --json")
    /\ input.cleanNodeModules

\* the directories in which a lock file regeneration was started, in order
LockAttempts ==
    LET regen == SelectSeq(calls, LAMBDA call : call.command = LockCommand)
    IN  [n \in 1..Len(regen) |-> regen[n].cwd]

\* C22: in smart link and in explicit link, a failed lock file regeneration
\* never makes execute raise and leaves the returned summary as it would be
\* without the failure; in explicit link the regeneration is attempted, in
\* order, in the directory of every consumer of a linked package and of
\* every linked package, whichever of them fail.
C22_LockFailureNonFatal ==
    (ExecuteRun /\ input.command = "link" /\ Failed(LockCommand)) =>
        /\ result.kind # "raised"
        /\ SmartRun =>
            /\ LockAttempts = <<input.cwd>>
            /\ Finished
            /\ result.value = SmartLinkSummary(Current.name, inv.done)
        /\ ExplicitLinkRun =>
            /\ IsPrefix(LockAttempts, LockPaths(Discovered, inv.packages))
            /\ Finished =>
                /\ LockAttempts = LockPaths(Discovered, inv.packages)
                /\ result.value = LinkSummary(NamesOf(inv.packages))

\* an explicit link has returned after the first of at least three lock file
\* regenerations failed
C22_Witness ==
    /\ ExplicitLinkRun /\ Finished /\ result.kind = "returned"
    /\ Len(LockAttempts) >= 3
    /\ \E n \in 1..Len(calls) :
        /\ calls[n].command = LockCommand /\ calls[n].status = "failed"
        /\ \E m \in (n + 1)..Len(calls) : calls[m].command = LockCommand

\* execute was given an argument other than 'status'
ArgumentRun == ExecuteRun /\ FinalPackageArgument \notin {"", "status"}

\* the part of the argument before its first '/'
BeforeFirstSlash(arg) == SubSeq(arg, 1, IndexOfFrom(arg, "/", 1) - 1)

\* scope and exact name the claim gives for an argument starting with '@'
ResolvedScope == IF Includes(FinalPackageArgument, "/")
                 THEN BeforeFirstSlash(FinalPackageArgument) ELSE FinalPackageArgument
ResolvedName == IF Includes(FinalPackageArgument, "/") THEN FinalPackageArgument ELSE ""

\* C23: an argument starting with '@' without '/' is parsed as that scope
\* with no exact name; one starting with '@' with a '/' as the scope before
\* its first '/' and the whole argument as exact name, and the packages
\* execute goes on to process are those selected with that scope and name;
\* for an argument not starting with '@' (and not 'status') the parse fails
\* and link and unlink raise 'Package argument must start with @ (scope):
\* <argument>' having started no subprocess and changed no filesystem entry.
C23_ArgumentResolution ==
    /\ [](ArgumentRun =>
            LET parsed == ParsePackageArgument(FinalPackageArgument)
            IN  /\ StartsWith(FinalPackageArgument, "@") =>
                    /\ parsed = [ok |-> TRUE, scope |-> ResolvedScope, packageName |-> ResolvedName]
                    /\ inv.pc \notin {"start", "done"} =>
                        inv.packages = PackagesToProcess(
                            FindMatchingPackages(Discovered, ResolvedScope, ResolvedName),
                            ResolvedName)
                    /\ (Finished /\ calls = <<>>) => result.kind = "returned"
                /\ ~StartsWith(FinalPackageArgument, "@") =>
                    /\ ~parsed.ok
                    /\ calls = <<>>
                    /\ inv.pc \in {"start", "done"}
                    /\ Finished =>
                        result = [kind |-> "raised",
                                  value |-> "Package argument must start with @ (scope): "
                                              \o FinalPackageArgument])
    /\ [][(ArgumentRun /\ ArgumentInvalid) => fs' = fs]_vars

\* unlink of 'lodash' has raised in a workspace whose consumer holds a link
C23_Witness ==
    /\ ArgumentRun /\ Finished /\ result.kind = "raised"
    /\ input.command = "unlink" /\ FinalPackageArgument = "lodash"
    /\ ~DryRunRequested
    /\ fs # EmptyFs

\* the slot holds a symlink to a local source directory
LinksToLocalSource(slot) ==
    /\ fs[slot].kind = "symlink"
    /\ fs[slot].target \in SourceDirs \cup {RelativeOf[DirnameOf[slot]][s] : s \in SourceDirs}

\* the same-scope dependencies the preceding smart link linked
LinkedSameScope ==
    {inv.linkedBefore[n] : n \in {m \in 1..Len(inv.linkedBefore) :
        StartsWith(inv.linkedBefore[m], CurrentScope(Current.name) \o "/")}}

\* C25: when a smart unlink that is not a dry run, run in a package after a
\* smart link of that package created symlinks in the slots of same-scope
\* dependencies, returns 'Successfully unlinked <name>', none of those slots
\* is a symlink to a local source directory.
C25_UnlinkUndoesLink ==
    (SmartUnlinkRun /\ ~DryRunRequested /\ Finished
        /\ result.kind = "returned" /\ StartsWith(result.value, "Successfully unlinked "))
    => \A d \in LinkedSameScope : ~LinksToLocalSource(SlotOf[input.cwd][d])

\* the argument is an exact package name
ExactRun == ArgumentRun /\ StartsWith(FinalPackageArgument, "@") /\ Includes(FinalPackageArgument, "/")

\* the directories of the discovered packages with the given name
DirsNamed(name) ==
    {PackageDir(Discovered[n]) : n \in {m \in 1..Len(Discovered) :
        Discovered[m].valid /\ Discovered[m].name = name}}

\* the directories of the discovered packages that declare the named package
\* as a dependency, the package itself left out
DirectConsumerDirs(name) ==
    {PackageDir(Discovered[n]) : n \in {m \in 1..Len(Discovered) :
        /\ Discovered[m].valid
        /\ Discovered[m].name \notin {"", name}
        /\ DeclaresKey(Discovered[m], name)}}

\* C26: in explicit link and unlink with an exact package name, a
\* registration ('npm link') or unregistration ('npm unlink') is run only in
\* the directory of the package with that name, a link-in or unlink command
\* names only that package and is run only in one of its direct consumers,
\* and the summary names that package alone: no other package of the scope
\* is registered as a source or appears in the summary.
C26_ExactNameOnly ==
    ExactRun =>
        /\ \A n \in 1..Len(calls) :
            /\ calls[n].command \in {"npm link", "npm unlink"} =>
                calls[n].cwd \in DirsNamed(FinalPackageArgument)
            /\ StartsWith(calls[n].command, "npm link ") =>
                /\ calls[n].command = "npm link " \o FinalPackageArgument
                /\ calls[n].cwd \in DirectConsumerDirs(FinalPackageArgument)
            /\ StartsWith(calls[n].command, "npm unlink ") =>
                /\ calls[n].command = "npm unlink " \o FinalPackageArgument
                /\ calls[n].cwd \in DirectConsumerDirs(FinalPackageArgument)
        /\ \A n \in 1..Len(inv.done) : inv.done[n] = FinalPackageArgument
        /\ (Finished /\ result.kind = "returned" /\ DirsNamed(FinalPackageArgument) # {}) =>
            result.value \in
                {"Successfully linked 1 package(s): " \o FinalPackageArgument,
                 "Successfully unlinked 1 package(s): " \o FinalPackageArgument}

\* link of '@acme/a' has returned in a workspace where @acme/b, of the same
\* scope, is a consumer of @acme/a and has a consumer of its own
C26_Witness ==
    /\ ExactRun /\ Finished /\ result.kind = "returned" /\ ~DryRunRequested
    /\ input.command = "link" /\ FinalPackageArgument = "@acme/a"
    /\ "/ws/b" \in DirectConsumerDirs("@acme/a")
    /\ "/ws/consumer" \in DirectConsumerDirs("@acme/b")
    /\ \E n \in 1..Len(calls) : calls[n].command = "npm link @acme/a" /\ calls[n].cwd = "/ws/b"

\* no discovered package has a name in the scope of the argument
NoneInScope ==
    \A n \in 1..Len(Discovered) :
        ~(Discovered[n].valid /\ StartsWith(Discovered[n].name, ResolvedScope \o "/"))

\* C27: when no discovered package is in the scope of the argument, explicit
\* link and unlink start no subprocess (no registration, no link-in or
\* unlink, no lock regeneration) and return, without raising, 'No packages
\* found in scope: <scope>' for a scope and 'No package found matching:
\* <name>' for an exact name.
C27_NoMatchReturns ==
    (ArgumentRun /\ StartsWith(FinalPackageArgument, "@") /\ NoneInScope) =>
        /\ calls = <<>>
        /\ inv.pc \in {"start", "done"}
        /\ inv.done = <<>>
        /\ Finished =>
            result = [kind |-> "returned",
                      value |-> IF Includes(FinalPackageArgument, "/")
                                THEN "No package found matching: " \o FinalPackageArgument
                                ELSE "No packages found in scope: " \o ResolvedScope]

\* unlink of '@other/x', not a dry run, has returned where packages of another
\* scope are discovered
C27_Witness ==
    /\ ArgumentRun /\ Finished /\ ~DryRunRequested
    /\ input.command = "unlink" /\ FinalPackageArgument = "@other/x"
    /\ Len(Discovered) > 1
    /\ result.value = "No package found matching: @other/x"

\* the names of the link set gone through so far that are keys of the registry
KnownSoFar ==
    SelectSeq(SubSeq(inv.dependenciesToLink, 1, inv.depIndex - 1),
              LAMBDA d : d \in DOMAIN inv.globallyLinkedPackages)

ReconciledNames == [n \in 1..Len(inv.reconciled) |-> inv.reconciled[n].packageName]

\* the names whose reconcile returned true, in the order of the calls
ReconciledTrue ==
    LET ok == SelectSeq(inv.reconciled, LAMBDA r : r.ret)
    IN  [n \in 1..Len(ok) |-> ok[n].packageName]

\* C29: in a smart link that is not a dry run, once the registry is queried,
\* createSymbolicLink is called, in the order of the link set, for exactly
\* the names of the link set that are keys of the registry map, each with the
\* registry's directory for that name as source; a name the registry lacks is
\* skipped and a call that returns false does not stop the loop; no error is
\* raised; the summary lists exactly the names whose call returned true, and
\* is 'Self-linked <name>, no dependencies were available to link' when there
\* is none.
C29_ReconcileRegistered ==
    (RegistryBuilt /\ ~DryRunRequested) =>
        /\ ReconciledNames = KnownSoFar
        /\ \A n \in 1..Len(inv.reconciled) :
            inv.reconciled[n].sourcePath = inv.globallyLinkedPackages[inv.reconciled[n].packageName]
        /\ inv.done = ReconciledTrue
        /\ result.kind # "raised"
        /\ Finished =>
            /\ inv.depIndex = Len(inv.dependenciesToLink) + 1
            /\ result.kind = "returned"
            /\ result.value =
                IF Len(ReconciledTrue) = 0
                THEN "Self-linked " \o Current.name \o ", no dependencies were available to link"
                ELSE "Self-linked " \o Current.name \o " and linked "
                        \o ToString(Len(ReconciledTrue)) \o " dependencies: "
                        \o JoinWith(ReconciledTrue, ", ")

\* the first of two calls returned false, the second true, and the summary
\* names the second dependency only
C29_Witness ==
    /\ RegistryBuilt /\ ~DryRunRequested /\ Finished
    /\ Len(inv.reconciled) = 2
    /\ ~inv.reconciled[1].ret /\ inv.reconciled[2].ret
    /\ inv.reconciled[1].packageName # inv.reconciled[2].packageName
    /\ Len(inv.done) = 1

\* the link set of the claim: the declared names in the scope of the current
\* package or matching an external pattern
LinkSetUnion ==
    {d \in DeclaredNames(Current) :
        StartsWith(d, CurrentScope(Current.name) \o "/") \/ PatternMatches(d)}

Occurrences(seq, x) == Cardinality({n \in 1..Len(seq) : seq[n] = x})

\* Step 2.5 of a smart link is passed with something to link
LinkSetComputed ==
    /\ SmartLinkRun
    /\ inv.pc \notin {"start", "smart:self:await", "smart:linkset"}
    /\ Len(inv.dependenciesToLink) > 0

\* C30: the link set of a smart link holds exactly the declared dependency
\* names that are in the scope of the current package or that equal, or
\* start with, an external pattern; a name that is both is in it once, is
\* reconciled at most once in the invocation and is counted once in the
\* summary.
C30_LinkSetIsUnion ==
    LinkSetComputed =>
        /\ {inv.dependenciesToLink[n] : n \in 1..Len(inv.dependenciesToLink)} = LinkSetUnion
        /\ \A d \in LinkSetUnion :
            /\ Occurrences(inv.dependenciesToLink, d) = 1
            /\ Occurrences(ReconciledNames, d) <= 1
            /\ Occurrences(inv.done, d) <= 1

\* the names of the discovered packages an explicit run processes as sources:
\* the package with the exact name, or every package of the scope
SourceNames ==
    {Discovered[n].name : n \in {m \in 1..Len(Discovered) :
        /\ Discovered[m].valid
        /\ IF Includes(FinalPackageArgument, "/")
           THEN Discovered[m].name = FinalPackageArgument
           ELSE StartsWith(Discovered[m].name, FinalPackageArgument \o "/")}}

\* the directories of the processed sources and of their direct consumers
ProcessedDirs ==
    UNION {DirsNamed(s) \cup DirectConsumerDirs(s) : s \in SourceNames}

\* the package a link-in command names
LinkedName(call) == SubSeq(call.command, Len("npm link ") + 1, Len(call.command))

ExplicitLinkRealRun == ExplicitLinkRun /\ StartsWith(FinalPackageArgument, "@") /\ ~IsDryRun

\* C32: in an explicit link that is not a dry run, a link-in command for a
\* source S is issued only after a registration ('npm link') in S's directory
\* has completed; a lock file regeneration starts only after every
\* registration and link-in has completed; no directory has its lock file
\* regenerated twice, none outside the processed sources and their direct
\* consumers has it regenerated, and once link returns each of those
\* directories has had it regenerated exactly once.
C32_LinkOrdering ==
    ExplicitLinkRealRun =>
        /\ \A n \in 1..Len(calls) :
            IsLinkIn(calls[n]) =>
                \E m \in 1..(n - 1) :
                    /\ calls[m].command = "npm link"
                    /\ calls[m].status = "ok"
                    /\ calls[m].cwd \in DirsNamed(LinkedName(calls[n]))
        /\ \A m \in 1..Len(calls) :
            calls[m].command = LockCommand =>
                /\ \A n \in 1..Len(calls) :
                    (IsLinkIn(calls[n]) \/ calls[n].command = "npm link")
                        => n < m /\ calls[n].status = "ok"
                /\ inv.pkgIndex > Len(inv.packages)
        /\ \A n, m \in 1..Len(LockAttempts) : LockAttempts[n] = LockAttempts[m] => n = m
        /\ \A n \in 1..Len(LockAttempts) : LockAttempts[n] \in ProcessedDirs
        /\ (Finished /\ result.kind = "returned" /\ SourceNames # {}) =>
            {LockAttempts[n] : n \in 1..Len(LockAttempts)} = ProcessedDirs

\* link of the scope '@acme' has returned after at least three link-in
\* commands and the regeneration of three lock files, @acme/consumer being a
\* source and a consumer of two sources
C32_Witness ==
    /\ ExplicitLinkRealRun /\ Finished /\ result.kind = "returned"
    /\ FinalPackageArgument = "@acme"
    /\ Cardinality({n \in 1..Len(calls) : IsLinkIn(calls[n])}) >= 3
    /\ Cardinality({n \in 1..Len(calls) : IsLinkIn(calls[n]) /\ calls[n].cwd = "/ws/consumer"}) = 2
    /\ Len(LockAttempts) = 3
    /\ \A n \in 1..Len(calls) : calls[n].status = "ok"

ExplicitUnlinkRealRun ==
    ExecuteRun /\ input.command = "unlink" /\ StartsWith(FinalPackageArgument, "@") /\ ~IsDryRun

\* the source package a command of explicit unlink is about: the package
\* unregistered in its own directory, or the one named by 'npm unlink <pkg>'
UnlinkedSource(call) ==
    IF call.command = "npm unlink"
    THEN CHOOSE s \in SourceNames : call.cwd \in DirsNamed(s)
    ELSE SubSeq(call.command, Len("npm unlink ") + 1, Len(call.command))

\* C33: in an explicit unlink that is not a dry run, whichever commands fail,
\* when the unregistration ('npm unlink') of a source S is attempted the
\* unlink command 'npm unlink S' has been attempted and has ended in every
\* direct consumer of S, and between a command about S and a later command
\* about another source the unregistration of S has been attempted.
C33_UnlinkOrdering ==
    ExplicitUnlinkRealRun =>
        /\ \A n \in 1..Len(calls) :
            /\ StartsWith(calls[n].command, "npm unlink")
            /\ UnlinkedSource(calls[n]) \in SourceNames
            /\ n < Len(calls) => calls[n].status # "pending"
            /\ calls[n].command = "npm unlink" =>
                \A c \in DirectConsumerDirs(UnlinkedSource(calls[n])) :
                    \E m \in 1..(n - 1) :
                        /\ calls[m].command = "npm unlink " \o UnlinkedSource(calls[n])
                        /\ calls[m].cwd = c
        /\ \A k, m \in 1..Len(calls) :
            (k < m /\ UnlinkedSource(calls[k]) # UnlinkedSource(calls[m])) =>
                \E j \in k..(m - 1) :
                    /\ calls[j].command = "npm unlink"
                    /\ UnlinkedSource(calls[j]) = UnlinkedSource(calls[k])

\* unlink of the scope '@acme' has returned: three sources were
\* unregistered, two of them after an unlink in @acme/consumer, one of which
\* failed
C33_Witness ==
    /\ ExplicitUnlinkRealRun /\ Finished /\ result.kind = "returned"
    /\ FinalPackageArgument = "@acme"
    /\ Cardinality({n \in 1..Len(calls) : calls[n].command = "npm unlink"}) = 3
    /\ \E n \in 1..Len(calls) :
        calls[n] = [command |-> "npm unlink @acme/a", cwd |-> "/ws/consumer", status |-> "failed"]
    /\ \E n \in 1..Len(calls) :
        calls[n] = [command |-> "npm unlink @acme/b", cwd |-> "/ws/consumer", status |-> "ok"]

\* the (consumer directory, source name) pairs of the commands that start
\* with the given text, and the directories in which a bare command was run
PairsOf(history, text) ==
    {<<history[n].cwd, SubSeq(history[n].command, Len(text) + 1, Len(history[n].command))>> :
        n \in {m \in 1..Len(history) : StartsWith(history[m].command, text)}}
DirsOf(history, command) ==
    {history[n].cwd : n \in {m \in 1..Len(history) : history[m].command = command}}

\* an explicit unlink has ended that was called, with the same argument over
\* the same workspace, after an explicit link in which no command failed
UnlinkedAfterLink ==
    /\ ExplicitUnlinkRealRun /\ Finished
    /\ inv.callsBefore # <<>>

\* C34: for the same workspace and the same scope or exact-name argument,
\* the (consumer, source) pairs for which explicit unlink issues 'npm unlink
\* <source>' are those for which explicit link issued 'npm link <source>',
\* and the directories in which unlink runs 'npm unlink' are those in which
\* link ran 'npm link'; this holds whichever commands of the unlink fail.
C34_UnlinkMirrorsLink ==
    UnlinkedAfterLink =>
        /\ PairsOf(calls, "npm unlink ") = PairsOf(inv.callsBefore, "npm link ")
        /\ DirsOf(calls, "npm unlink") = DirsOf(inv.callsBefore, "npm link")

\* unlink of the scope '@acme' has ended after the link of the same scope:
\* three sources, at least three (consumer, source) pairs
C34_Witness ==
    /\ UnlinkedAfterLink
    /\ FinalPackageArgument = "@acme"
    /\ Cardinality(PairsOf(calls, "npm unlink ")) >= 3
    /\ Cardinality(DirsOf(calls, "npm unlink")) = 3
    /\ \A n \in 1..Len(calls) : calls[n].status = "ok"

ExplicitRealRun == ExplicitLinkRealRun \/ ExplicitUnlinkRealRun

Pending == {n \in 1..Len(calls) : calls[n].status = "pending"}

\* the directory the command is aimed at, from the loop variables of the
\* invocation: the source package for a registration or unregistration, the
\* consumer for a link-in or unlink, the next directory for a lock file
TargetedDirectory(command) ==
    IF command \in {"npm link", "npm unlink"} THEN CurrentPackage.path
    ELSE IF command = LockCommand THEN inv.lockPaths[inv.lockIndex]
    ELSE CurrentConsumer.path

\* the directory a command belongs in by its text alone
InItsDirectory(call) ==
    IF call.command \in {"npm link", "npm unlink"}
    THEN \E s \in SourceNames : call.cwd \in DirsNamed(s)
    ELSE IF call.command = LockCommand THEN call.cwd \in ProcessedDirs
    ELSE IF IsLinkIn(call) THEN call.cwd \in DirectConsumerDirs(LinkedName(call))
    ELSE /\ StartsWith(call.command, "npm unlink ")
         /\ call.cwd \in DirectConsumerDirs(UnlinkedSource(call))

\* C35: within one invocation of explicit link or unlink at most one
\* subprocess is in flight, and it is the last one started; while it runs the
\* working directory is the one it was started in, which is the directory of
\* the source for 'npm link' / 'npm unlink', of the consumer for 'npm link
\* <pkg>' / 'npm unlink <pkg>', and the directory whose lock file is
\* regenerated for the lock command; every subprocess of the invocation was
\* started in such a directory.
C35_SequentialAndScoped ==
    ExplicitRealRun =>
        /\ Cardinality(Pending) <= 1
        /\ Pending \subseteq {Len(calls)}
        /\ \A n \in Pending :
            /\ cwd = calls[n].cwd
            /\ cwd = TargetedDirectory(calls[n].command)
            /\ IsLinkIn(calls[n]) => LinkedName(calls[n]) = CurrentPackage.name
            /\ StartsWith(calls[n].command, "npm unlink ") =>
                calls[n].command = "npm unlink " \o CurrentPackage.name
        /\ \A n \in 1..Len(calls) : InItsDirectory(calls[n])

\* 'npm link @acme/b' is running in @acme/consumer, which is not the
\* directory execute was called in, after subprocesses that ran in two other
\* directories
C35_Witness ==
    /\ ExplicitLinkRealRun
    /\ Pending = {Len(calls)}
    /\ calls[Len(calls)].command = "npm link @acme/b"
    /\ cwd = "/ws/consumer" /\ input.cwd # cwd
    /\ Cardinality({calls[n].cwd : n \in 1..Len(calls)}) >= 3

\* C38: when the argument is an exact package name and no discovered package
\* has that name, explicit link and unlink return 'No package found
\* matching: <name>' and name no package as linked or unlinked, also when
\* other packages of the same scope are discovered.
C38_ExactNameNotFound ==
    (ExactRun /\ Finished /\ DirsNamed(FinalPackageArgument) = {}) =>
        /\ result = [kind |-> "returned",
                     value |-> "No package found matching: " \o FinalPackageArgument]
        /\ inv.done = <<>>

\* a registration or a link-in command
IsLinkCommand(call) == call.command = "npm link" \/ IsLinkIn(call)

\* the directory of the call had its lock file regeneration attempted later
LockAttemptedAfter(n) ==
    \E m \in (n + 1)..Len(calls) :
        calls[m].command = LockCommand /\ calls[m].cwd = calls[n].cwd

\* C39 as stated: in an explicit link that is not a dry run, once execute has
\* ended, by returning or by raising, every directory in which a
\* registration or a link-in command was executed has had its lock file
\* regeneration attempted.
C39_LocksAlwaysRegenerated ==
    (ExplicitLinkRealRun /\ Finished) =>
        \A n \in 1..Len(calls) : IsLinkCommand(calls[n]) => LockAttemptedAfter(n)

\* C39 (amended): in an explicit link that is not a dry run, when execute
\* returns, every directory in which a registration or a link-in command was
\* executed has had its lock file regeneration attempted afterwards; when
\* execute raises because a registration or a link-in failed, no lock file
\* regeneration has been attempted at all.
C39_LocksRegeneratedOnReturn ==
    (ExplicitLinkRealRun /\ Finished) =>
        /\ result.kind = "returned" =>
            \A n \in 1..Len(calls) : IsLinkCommand(calls[n]) => LockAttemptedAfter(n)
        /\ result.kind = "raised" => LockAttempts = <<>>

\* link has raised on a failed link-in after a registration and a link-in
\* of an earlier source succeeded: no lock file was regenerated
C39_Witness ==
    /\ ExplicitLinkRealRun /\ Finished /\ result.kind = "raised"
    /\ \E n \in 1..Len(calls) : FailedLinkIn(n)
    /\ \E n \in 1..Len(calls) : IsLinkIn(calls[n]) /\ calls[n].status = "ok"
    /\ \E n \in 1..Len(calls) : calls[n].command = "npm link" /\ calls[n].status = "ok"
    /\ LockAttempts = <<>>

\* two invocations share the process
ConcurrentRun == api = "execute" /\ inv.suspended.present

BothEnded == ConcurrentRun /\ inv.pc = "done" /\ inv.suspended.inv.pc = "done"

\* every command the running invocation has started was started in the
\* directory of the package it is aimed at, and the one in flight was
\* started in the directory its loop variables name
StartedInTarget ==
    /\ \A n \in 1..Len(calls) : InItsDirectory(calls[n])
    /\ \A n \in Pending :
        /\ n = Len(calls)
        /\ calls[n].cwd = TargetedDirectory(calls[n].command)

\* the directories in which either invocation has started a command
CommandDirs ==
    {calls[n].cwd : n \in 1..Len(calls)}
        \cup {inv.suspended.calls[n].cwd : n \in 1..Len(inv.suspended.calls)}

\* C40 as stated: when two invocations of explicit link or unlink interleave
\* at their awaits, every command is started in the directory of the package
\* it is aimed at, and once both have ended the working directory of the
\* process is the initial one.
C40_ConcurrentCwdRestored ==
    ConcurrentRun =>
        /\ StartedInTarget
        /\ BothEnded => cwd = input.cwd

\* C40 (amended): when two invocations of explicit link or unlink interleave
\* at their awaits, every command is started in the directory of the package
\* it is aimed at (every state has the invocation that runs checked, and
\* each of the two runs in turn), but once both have ended the working
\* directory of the process is the initial one or a directory in which one
\* of them started a command: an invocation that reads process.cwd() while
\* the other is inside its chdir scope restores that directory.
C40_ConcurrentCwd ==
    ConcurrentRun =>
        /\ StartedInTarget
        /\ BothEnded => cwd \in {input.cwd} \cup CommandDirs

\* both invocations have ended without any command failing and the process
\* is left in the directory of a package
C40_Witness ==
    /\ BothEnded
    /\ cwd # input.cwd
    /\ result.kind = "returned" /\ inv.suspended.result.kind = "returned"
    /\ Len(calls) > 0 /\ Len(inv.suspended.calls) > 0
    /\ \A n \in 1..Len(calls) : calls[n].status = "ok"
    /\ \A n \in 1..Len(inv.suspended.calls) : inv.suspended.calls[n].status = "ok"

----------------------------------------------------------------------------
(* Properties of the updates command                                        *)

UpdatesRun == api = "updates"

\* the scopes the configuration gives: the explicit one, or the configured list
ListToProcess ==
    IF input.updatesScope # "" THEN <<input.updatesScope>>
    ELSE IF input.treePackageArgument # "" THEN <<input.treePackageArgument>>
    ELSE IF input.updatesScopes.defined THEN input.updatesScopes.value
    ELSE input.scopedDependencyUpdates.value

\* neither an explicit scope nor a configured scope exists
NoScopeAtAll ==
    /\ input.updatesScope = "" /\ input.treePackageArgument = ""
    /\ input.updatesScopes.value = <<>>
    /\ input.scopedDependencyUpdates.value = <<>>

SomeScopeInvalid == \E n \in 1..Len(ListToProcess) : ~StartsWith(ListToProcess[n], "@")

\* C28: the updates command, in its scoped mode, raises 'No scope specified
\* and no default scopes configured...' when neither an explicit scope nor
\* configured scopes exist, and 'Invalid scope "<scope>"...' when a scope of
\* the list to process does not start with '@'; in both cases it has run no
\* npm-check-updates and no npm install, not even for the valid scopes that
\* precede the invalid one.
C28_UpdatesValidateFirst ==
    UpdatesRun =>
        /\ (NoScopeAtAll \/ SomeScopeInvalid) =>
            /\ calls = <<>>
            /\ inv.results = <<>>
            /\ inv.pc \in {"start", "done"}
            /\ inv.pc = "done" => result.kind = "raised"
        /\ (inv.pc = "done" /\ NoScopeAtAll) =>
            StartsWith(result.value, "No scope specified and no default scopes configured")
        /\ (inv.pc = "done" /\ SomeScopeInvalid) =>
            \E n \in 1..Len(ListToProcess) :
                /\ ~StartsWith(ListToProcess[n], "@")
                /\ StartsWith(result.value, "Invalid scope \"" \o ListToProcess[n] \o "\"")

\* the command, not in a dry run, has raised on the third scope of a list
\* whose first two scopes are valid
C28_Witness ==
    /\ UpdatesRun /\ inv.pc = "done" /\ ~input.dryRun
    /\ Len(ListToProcess) = 3
    /\ StartsWith(ListToProcess[1], "@") /\ StartsWith(ListToProcess[2], "@")
    /\ result.kind = "raised"
    /\ StartsWith(result.value, "Invalid scope \"third\"")

----------------------------------------------------------------------------
(* Properties of the status scan                                            *)

StatusRun == api = "execute" /\ FinalPackageArgument = "status"

\* a declared dependency of the manifest whose slot holds a symlink
HasLinkedDependency(file) ==
    /\ PackageDir(file) \in TargetDirs
    /\ \E d \in DeclaredNames(file) :
        d \in DOMAIN SlotOf[PackageDir(file)] /\ fs[SlotOf[PackageDir(file)][d]].kind = "symlink"

\* the manifests under the directories the report covers
UnderTargets ==
    {manifests[n] : n \in {m \in 1..Len(manifests) :
        \E t \in 1..Len(TargetDirectories) :
            StartsWith(manifests[m].path, TargetDirectories[t] \o "/")}}

Reported == {<<inv.packageStatuses[n].name, inv.packageStatuses[n].path>> :
                n \in 1..Len(inv.packageStatuses)}

SlotEntry(packagePath, dependencyName) ==
    IF packagePath \in TargetDirs /\ dependencyName \in DOMAIN SlotOf[packagePath]
    THEN fs[SlotOf[packagePath][dependencyName]] ELSE Absent

\* every record describes a symlinked slot, with the target as stored and the
\* classification by the two textual tests
ClassifiedAsStored(packagePath, deps) ==
    \A n \in 1..Len(deps) :
        LET entry == SlotEntry(packagePath, deps[n].dependencyName)
        IN  /\ entry.kind = "symlink"
            /\ deps[n].targetPath = entry.target
            /\ deps[n].isExternal <=>
                (~Includes(entry.target, "node_modules") \/ StartsWith(entry.target, ".."))

\* the line of the report for a dependency and a stored target
ReportLine(kind, dependencyName, target) ==
    "[link] " \o kind \o " " \o dependencyName \o " -> " \o target \o "\n"

\* every symlinked slot of a dependency declared by a reported package has
\* its record and its line in the report
EverySlotReported ==
    \A n \in 1..Len(inv.packageStatuses) :
        LET status == inv.packageStatuses[n]
        IN  \A d \in DepNames :
                LET entry == SlotEntry(status.path, d)
                    t == entry.target
                IN  (entry.kind = "symlink"
                        /\ InSeq(d, AllDependencyKeys(ReadManifest(manifests,
                                        PathJoin(status.path, "package.json")))))
                    => /\ \E k \in 1..Len(status.linkedDependencies) :
                            status.linkedDependencies[k].dependencyName = d
                       /\ Includes(result.value, ReportLine(
                            IF ~Includes(t, "node_modules") \/ StartsWith(t, "..")
                            THEN "External" ELSE "Internal", d, t))

C14_StatusClassification ==
    found.done =>
        \A n \in 1..Len(found.result) :
            /\ (found.result[n].dependencyName = "@acme/a"
                    /\ found.result[n].targetPath = "../../a")
                => ~found.result[n].isExternal
            /\ found.result[n].targetPath = "/Users/dev/other-workspace/a"
                => found.result[n].isExternal

====
